---- MODULE Spec2Model ----
(***************************************************************************)
(* Material Impact & Recommendation Engine of ThreadLife                   *)
(* (ecofabric-vercel/src/materialcomparator.jsx).                          *)
(*                                                                         *)
(* JavaScript numbers are IEEE-754 doubles.  A number is the triple        *)
(* <<s, e, m>> of its sign s (1, -1, or 0 for zero), an exponent e and the  *)
(* significand m, an integer with 2^52 <= m < 2^53 written as four 14-bit   *)
(* limbs, lowest first; its value is s * m * 2^e.  Every operation rounds   *)
(* its exact result to the nearest double, ties to even, as the hardware    *)
(* does.  The exponent is unbounded (no value of the program comes near     *)
(* overflow or the subnormal range) and -0 is not told from 0 (no           *)
(* operation of the program tells them apart).                              *)
(* The value `undefined` (a missing property) is the pair <<0, 0>>, NaN is  *)
(* <<1, 0>> and a function or object inherited from Object.prototype is     *)
(* <<0, -1>>; arithmetic on any of them gives NaN and every comparison      *)
(* with them is false, as in JavaScript.                                    *)
(* A composition is the sequence of its <<material, fraction>> entries in   *)
(* insertion order.                                                         *)
(***************************************************************************)
EXTENDS Integers, Sequences, FiniteSets, TLC

VARIABLES currentComposition, category, currentLifespan, currentImpact,
          suggestions, hook

\* what React keeps for the three useMemo calls besides their values: the
\* dependency list each was last evaluated with (empty before the first
\* render), and the identities of the objects among the dependencies, the
\* composition held in state and the object currentImpact returned (0 before
\* there is one); the identity of an object is the number of the render
\* that follows or makes its creation
VARIABLES deps, identity

\* the number of user events (slider moves, preset clicks, category
\* selections) the component has handled since it mounted
VARIABLE handled

\* history: the number of those events that were slider moves
VARIABLE moved

\* parseCompositionText (services/hmApi.js): the regular-expression matches
\* of the text, and the composition returned once the call has run
VARIABLES matches, parsed, parseDone

parseVars == <<matches, parsed, parseDone>>

\* HomePage (pages/HomePage.js): the useState cells of the component, and
\* the running call of handleSearch (its position, the itemsPerPage its
\* closure captured and the value its await produced)
VARIABLES searchQuery, allProducts, displayedProducts, loading, error,
          itemsPerPage, currentPage, searchRun

homeVars == <<searchQuery, allProducts, displayedProducts, loading, error,
              itemsPerPage, currentPage, searchRun>>

\* searchProducts (services/hmApi.js, the version with paging): the call,
\* the position in it, whether fetchFromLadiesAll is running, the loop
\* variable, the allProducts of searchProducts and of fetchFromLadiesAll,
\* the list requests sent so far, the detail requests of processProducts,
\* and how the promise of searchProducts settled and with what
VARIABLES searchCall, searchPc, fallback, page, listed, listedAll, listLog,
          details, settled, returned

serviceVars == <<searchCall, searchPc, fallback, page, listed, listedAll,
                 listLog, details, settled, returned>>

\* generateImprovedCompositions (pages/ProductDetailPage.js): its argument
\* and, once it has run, its result
VARIABLES currentComp, recommendations, generated

improveVars == <<currentComp, recommendations, generated>>

\* the state of everything but the MaterialComparator component
others == <<parseVars, homeVars, serviceVars, improveVars>>

vars == <<currentComposition, category, currentLifespan, currentImpact,
          suggestions, hook, deps, identity, handled, moved, others>>

\* no call of parseCompositionText has been made
ParseIdle == matches = <<>> /\ parsed = <<>> /\ parseDone = FALSE

\* useState(null) of error
NoError == "null"

\* no call of handleSearch is running
NoSearchRun == [pc |-> "idle", itemsPerPage |-> 0, results |-> <<>>, failed |-> FALSE]

\* HomePage as useState initialises it
HomeIdle ==
  /\ searchQuery = ""
  /\ allProducts = <<>>
  /\ displayedProducts = <<>>
  /\ loading = FALSE
  /\ error = NoError
  /\ itemsPerPage = 5
  /\ currentPage = 1
  /\ searchRun = NoSearchRun

\* no call of searchProducts has been made
NoSearchCall == [query |-> <<>>, maxProducts |-> 0, categoryId |-> ""]

ServiceIdle ==
  /\ searchCall = NoSearchCall
  /\ searchPc = "idle"
  /\ fallback = FALSE
  /\ page = 0
  /\ listed = <<>>
  /\ listedAll = <<>>
  /\ listLog = <<>>
  /\ details = <<>>
  /\ settled = "pending"
  /\ returned = <<>>

\* no call of generateImprovedCompositions has been made
ImproveIdle == currentComp = <<>> /\ recommendations = <<>> /\ generated = FALSE

OthersIdle == ParseIdle /\ HomeIdle /\ ServiceIdle /\ ImproveIdle


---------------------------------------------------------------------------
(* Numbers: IEEE-754 double precision.  A number is <<s, e, m>>: the sign  *)
(* s (1, -1, or 0 for zero), the exponent e and the significand m, four    *)
(* 14-bit limbs, lowest first, with 2^52 <= m < 2^53; its value is         *)
(* s * m * 2^e.  Every operation computes the exact result on up to eight  *)
(* limbs and rounds it to the nearest double, ties to even.                *)

\* the limbs of a significand are digits in this base (14 bits), so that a
\* sum of four limb products stays below 2^31
Base == 16384

\* two limbs taken together: 28 bits
DoubleBase == 268435456

\* undefined (a missing property), NaN, and a function or object reached
\* through Object.prototype
Undefined == <<0, 0>>
NaN == <<1, 0>>
Inherited == <<0, -1>>

\* typeof x === 'number' and x is not NaN
IsNumber(x) == Len(x) = 3

Zero == <<0, 0, <<0, 0, 0, 0>>>>

\* limb i of a little-endian limb sequence, 0 beyond its ends
LimbAt(N, i) == IF i >= 1 /\ i <= Len(N) THEN N[i] ELSE 0

\* carries (and borrows) propagated from limb i on: every limb in 0..Base-1
RECURSIVE Carry(_, _, _)
Carry(c, i, carry) ==
  IF i > Len(c) THEN <<>>
  ELSE <<(c[i] + carry) % Base>> \o Carry(c, i + 1, (c[i] + carry) \div Base)

\* number of bits of a limb
RECURSIVE BitLenLimb(_)
BitLenLimb(v) == IF v = 0 THEN 0 ELSE 1 + BitLenLimb(v \div 2)

\* the highest non-zero limb at or below i, 0 when there is none
RECURSIVE TopIndex(_, _)
TopIndex(N, i) ==
  IF i = 0 THEN 0 ELSE IF N[i] # 0 THEN i ELSE TopIndex(N, i - 1)

\* number of bits of an integer whose highest non-zero limb is limb t
BitLenFrom(N, t) == IF t = 0 THEN 0 ELSE 14 * (t - 1) + BitLenLimb(N[t])

\* number of bits of an integer given by its limbs
BitLen(N) == BitLenFrom(N, TopIndex(N, Len(N)))

\* N \div 2^k, on 8 limbs
Shr(N, k) ==
  [i \in 1..8 |->
     (LimbAt(N, i + k \div 14) \div (2 ^ (k % 14)))
       + (LimbAt(N, i + k \div 14 + 1) % (2 ^ (k % 14))) * (2 ^ (14 - (k % 14)))]

\* N * 2^k, on 8 limbs
Shl(N, k) ==
  [i \in 1..8 |->
     (LimbAt(N, i - k \div 14) % (2 ^ (14 - (k % 14)))) * (2 ^ (k % 14))
       + (LimbAt(N, i - k \div 14 - 1) \div (2 ^ (14 - (k % 14))))]

\* bit j of N (bit 0 is the lowest)
BitAt(N, j) == (LimbAt(N, j \div 14 + 1) \div (2 ^ (j % 14))) % 2

\* the k lowest bits of N are all 0
LowZero(N, k) ==
  /\ \A i \in 1..(k \div 14) : LimbAt(N, i) = 0
  /\ LimbAt(N, k \div 14 + 1) % (2 ^ (k % 14)) = 0

First4(N) == <<N[1], N[2], N[3], N[4]>>

\* 1, 0 or -1 as M is greater than, equal to or less than N, comparing limbs
\* i down to 1
RECURSIVE CmpMag(_, _, _)
CmpMag(M, N, i) ==
  IF i = 0 THEN 0
  ELSE IF LimbAt(M, i) > LimbAt(N, i) THEN 1
  ELSE IF LimbAt(M, i) < LimbAt(N, i) THEN -1
  ELSE CmpMag(M, N, i - 1)

\* a significand that a rounding carry took to 2^53 is 2^52 with the next
\* exponent
Renormalize(s, e, m) ==
  IF m[4] = 2048 THEN <<s, e + 1, <<0, 0, 0, 1024>>>> ELSE <<s, e, m>>

\* s * q * 2^e for a 53-bit q, one unit in the last place added when up
RoundUp(s, e, q, up) ==
  IF up THEN Renormalize(s, e, Carry(<<q[1] + 1, q[2], q[3], q[4]>>, 1, 0))
  ELSE <<s, e, First4(q)>>

\* the double nearest to s * N * 2^e for an N of L bits, L > 0
RoundBits(s, e, N, L) ==
  IF L <= 53 THEN <<s, e - (53 - L), First4(Shl(N, 53 - L))>>
  ELSE RoundUp(s, e + (L - 53), Shr(N, L - 53),
               /\ BitAt(N, L - 54) = 1
               /\ (~LowZero(N, L - 54) \/ BitAt(N, L - 53) = 1))

\* the double nearest to s * N * 2^e, ties to the even significand
\* (the rounding of every arithmetic operation)
Round(s, e, N) == IF BitLen(N) = 0 THEN Zero ELSE RoundBits(s, e, N, BitLen(N))

\* an integer literal
Num(n) ==
  IF n < 0
  THEN Round(-1, 0, <<(-n) % Base, ((-n) \div Base) % Base, (-n) \div (Base * Base)>>)
  ELSE Round(1, 0, <<n % Base, (n \div Base) % Base, n \div (Base * Base)>>)

Neg(x) == IF IsNumber(x) THEN <<-x[1], x[2], x[3]>> ELSE NaN

Sign(x) == IF IsNumber(x) THEN x[1] ELSE 0

\* 1, 0 or -1 as the number x is greater than, equal to or less than y
Compare(x, y) ==
  IF x[1] # y[1] THEN (IF x[1] > y[1] THEN 1 ELSE -1)
  ELSE IF x[1] = 0 THEN 0
  ELSE IF x[2] # y[2] THEN (IF x[2] > y[2] THEN x[1] ELSE -x[1])
  ELSE x[1] * CmpMag(x[3], y[3], 4)

\* comparisons: false when an operand is not a number
Lt(x, y) == IsNumber(x) /\ IsNumber(y) /\ Compare(x, y) < 0
Gt(x, y) == IsNumber(x) /\ IsNumber(y) /\ Compare(x, y) > 0
Le(x, y) == IsNumber(x) /\ IsNumber(y) /\ Compare(x, y) <= 0
Ge(x, y) == IsNumber(x) /\ IsNumber(y) /\ Compare(x, y) >= 0

\* hi + lo where X is the significand of hi shifted to the exponent of lo
\* and c compares X with the significand of lo: the magnitudes are added
\* when the signs agree, and the smaller one taken from the larger otherwise
AddShifted(hi, lo, X, c) ==
  IF hi[1] = lo[1]
  THEN Round(hi[1], lo[2], Carry([i \in 1..8 |-> X[i] + LimbAt(lo[3], i)], 1, 0))
  ELSE IF c = 0 THEN Zero
  ELSE Round(IF c > 0 THEN hi[1] ELSE lo[1], lo[2],
             Carry([i \in 1..8 |-> c * (X[i] - LimbAt(lo[3], i))], 1, 0))

\* hi + lo for non-zero numbers, the exponent of hi at least that of lo
AddAligned(hi, lo) ==
  IF hi[2] - lo[2] >= 55 THEN hi
  ELSE AddShifted(hi, lo, Shl(hi[3], hi[2] - lo[2]),
                  CmpMag(Shl(hi[3], hi[2] - lo[2]), lo[3], 8))

Add(x, y) ==
  IF ~IsNumber(x) \/ ~IsNumber(y) THEN NaN
  ELSE IF x[1] = 0 THEN y
  ELSE IF y[1] = 0 THEN x
  ELSE AddAligned(IF x[2] >= y[2] THEN x ELSE y, IF x[2] >= y[2] THEN y ELSE x)

Sub(x, y) == Add(x, Neg(y))

\* the product of limb i of a and the limb of b that falls into column k
MulTerm(a, b, k, i) == IF k - i >= 1 /\ k - i <= 4 THEN a[i] * b[k - i] ELSE 0

\* column k of the schoolbook product of two 4-limb significands
MulColumn(a, b, k) ==
  MulTerm(a, b, k, 1) + MulTerm(a, b, k, 2) + MulTerm(a, b, k, 3) + MulTerm(a, b, k, 4)

Mul(x, y) ==
  IF ~IsNumber(x) \/ ~IsNumber(y) THEN NaN
  ELSE IF x[1] = 0 \/ y[1] = 0 THEN Zero
  ELSE Round(x[1] * y[1], x[2] + y[2],
             Carry([i \in 1..8 |-> MulColumn(x[3], y[3], i + 1)], 1, 0))

\* n steps of binary long division of the remainder rh * 2^28 + rl by the
\* divisor dh * 2^28 + dl: <<the n quotient bits, the remainder>>
RECURSIVE DivSteps(_, _, _, _, _, _)
DivSteps(rh, rl, dh, dl, n, acc) ==
  IF n = 0 THEN <<acc, rh, rl>>
  ELSE IF 2 * rh + (2 * rl) \div DoubleBase > dh
          \/ (2 * rh + (2 * rl) \div DoubleBase = dh /\ (2 * rl) % DoubleBase >= dl)
  THEN IF (2 * rl) % DoubleBase >= dl
       THEN DivSteps(2 * rh + (2 * rl) \div DoubleBase - dh,
                     ((2 * rl) % DoubleBase) - dl, dh, dl, n - 1, 2 * acc + 1)
       ELSE DivSteps(2 * rh + (2 * rl) \div DoubleBase - dh - 1,
                     ((2 * rl) % DoubleBase) - dl + DoubleBase, dh, dl, n - 1, 2 * acc + 1)
  ELSE DivSteps(2 * rh + (2 * rl) \div DoubleBase, (2 * rl) % DoubleBase,
                dh, dl, n - 1, 2 * acc)

\* j more limbs of the quotient, 14 bits each, put below the limbs found so
\* far; the lowest limb is a sticky bit for the remainder.  step is the
\* result of the 14 division steps of the limb before.
RECURSIVE DivLimbs(_, _, _, _, _)
DivLimbs(step, dh, dl, j, limbs) ==
  IF j = 0
  THEN <<IF step[2] = 0 /\ step[3] = 0 THEN 0 ELSE 1, step[1]>> \o limbs
  ELSE DivLimbs(DivSteps(step[2], step[3], dh, dl, 14, 0), dh, dl, j - 1,
                <<step[1]>> \o limbs)

\* the quotient of nh * 2^28 + nl by dh * 2^28 + dl, both in [2^52, 2^53):
\* the leading bit and 56 bits more, then the sticky bit
DivHalves(nh, nl, dh, dl) ==
  IF nh > dh \/ (nh = dh /\ nl >= dl)
  THEN IF nl >= dl
       THEN DivLimbs(DivSteps(nh - dh, nl - dl, dh, dl, 14, 0), dh, dl, 3, <<1>>)
       ELSE DivLimbs(DivSteps(nh - dh - 1, nl - dl + DoubleBase, dh, dl, 14, 0),
                     dh, dl, 3, <<1>>)
  ELSE DivLimbs(DivSteps(nh, nl, dh, dl, 14, 0), dh, dl, 3, <<0>>)

\* x / y for y # 0
Div(x, y) ==
  IF ~IsNumber(x) \/ ~IsNumber(y) \/ y[1] = 0 THEN NaN
  ELSE IF x[1] = 0 THEN Zero
  ELSE Round(x[1] * y[1], x[2] - y[2] - 70,
             DivHalves(x[3][3] + Base * x[3][4], x[3][1] + Base * x[3][2],
                       y[3][3] + Base * y[3][4], y[3][1] + Base * y[3][2]))

\* 1 / x
Inv(x) == Div(Num(1), x)

\* j more limbs of the fraction r / d (0 <= r < d < 2^17) put below the
\* limbs found so far; the lowest limb is a sticky bit for what is left
RECURSIVE FracLimbs(_, _, _, _)
FracLimbs(r, d, j, limbs) ==
  IF j = 0 THEN <<IF r = 0 THEN 0 ELSE 1>> \o limbs
  ELSE FracLimbs((r * Base) % d, d, j - 1, <<(r * Base) \div d>> \o limbs)

\* the double nearest to a / d for a >= 0, times the sign s
FracOf(s, a, d) ==
  IF d > 0 /\ d < 131072 /\ a < DoubleBase /\ (a = 0 \/ a > d \div 65536)
  THEN Round(s, -84, FracLimbs(a % d, d, 5, <<(a \div d) % Base, (a \div d) \div Base>>))
  ELSE Div(Num(s * a), Num(d))

\* a decimal literal: the double nearest to n / d (0.45 is Frac(45, 100))
Frac(n, d) == IF n < 0 THEN FracOf(-1, -n, d) ELSE FracOf(1, n, d)

MathMax(x, y) ==
  IF ~IsNumber(x) \/ ~IsNumber(y) THEN NaN
  ELSE IF Compare(x, y) >= 0 THEN x ELSE y

MathMin(x, y) ==
  IF ~IsNumber(x) \/ ~IsNumber(y) THEN NaN
  ELSE IF Compare(x, y) <= 0 THEN x ELSE y

\* the integer part q of |x| and whether the fraction reaches, and whether it
\* exceeds, one half: the nearest integer, a half rounding towards +Infinity
RoundHalfUp(s, int, half, more) ==
  IF s > 0 THEN (IF half THEN int + 1 ELSE int)
  ELSE (IF half /\ more THEN -(int + 1) ELSE -int)

\* the integer given by the three lowest limbs of q
LowInt(q) == q[1] + Base * q[2] + Base * Base * q[3]

\* Math.round of a number below 2^31 in magnitude, as an integer
MathRound(x) ==
  IF x[1] = 0 \/ -x[2] >= 55 THEN 0
  ELSE RoundHalfUp(x[1], LowInt(Shr(x[3], -x[2])),
                   -x[2] >= 1 /\ BitAt(x[3], -x[2] - 1) = 1,
                   -x[2] >= 2 /\ ~LowZero(x[3], -x[2] - 1))

\* the truthiness of x: false for undefined, NaN and 0
Truthy(x) == x = Inherited \/ (IsNumber(x) /\ x[1] # 0)

\* x || 0
OrZero(x) == IF Truthy(x) THEN x ELSE Num(0)

---------------------------------------------------------------------------
(* Objects: the sequence of the own <<key, value>> entries in insertion     *)
(* order, the order in which Object.entries and Object.keys list them       *)

ObjKeys(o) == [i \in DOMAIN o |-> o[i][1]]

ObjHas(o, k) == \E i \in DOMAIN o : o[i][1] = k

\* obj.key : the own property, or undefined
Prop(obj, key) ==
  IF ObjHas(obj, key) THEN obj[CHOOSE i \in DOMAIN obj : obj[i][1] = key][2]
  ELSE Undefined

\* o[k] = v: an existing key keeps its place, a new one goes last
ObjSet(o, k, v) ==
  IF ObjHas(o, k)
  THEN [i \in DOMAIN o |-> IF o[i][1] = k THEN <<k, v>> ELSE o[i]]
  ELSE Append(o, <<k, v>>)

\* { ...base, k1: v1, k2: v2 } : over is <<<<k1, v1>>, <<k2, v2>>>>
RECURSIVE Spread(_, _)
Spread(base, over) ==
  IF over = <<>> THEN base
  ELSE ObjSet(Spread(base, SubSeq(over, 1, Len(over) - 1)),
              over[Len(over)][1], over[Len(over)][2])

---------------------------------------------------------------------------
(* Reference tables *)

\* cost, name and description are display strings and are left out
MATERIAL_DATA ==
  [ cotton             |-> [co2 |-> Num(15), water |-> Num(2700), mat_score |-> Frac(100, 100)],
    recycled_cotton    |-> [co2 |-> Num(8),  water |-> Num(500),  mat_score |-> Frac(100, 100)],
    polyester          |-> [co2 |-> Num(10), water |-> Num(25),   mat_score |-> Frac(45, 100)],
    recycled_polyester |-> [co2 |-> Num(6),  water |-> Num(20),   mat_score |-> Frac(50, 100)],
    wool               |-> [co2 |-> Num(25), water |-> Num(1500), mat_score |-> Frac(85, 100)],
    linen              |-> [co2 |-> Num(8),  water |-> Num(650),  mat_score |-> Frac(80, 100)],
    elastane           |-> [co2 |-> Num(20), water |-> Num(100),  mat_score |-> Frac(60, 100)],
    nylon              |-> [co2 |-> Num(15), water |-> Num(30),   mat_score |-> Frac(50, 100)] ]

CATEGORY_MULTIPLIERS ==
  [ tshirt   |-> Frac(100, 100),
    sweater  |-> Frac(115, 100),
    jacket   |-> Frac(115, 100),
    dress    |-> Frac(90, 100),
    trousers |-> Frac(95, 100),
    jeans    |-> Frac(110, 100),
    other    |-> Frac(100, 100) ]

\* the property names every object literal inherits from Object.prototype;
\* each holds a function or an object
ObjectPrototypeNames ==
  {"constructor", "__proto__", "hasOwnProperty", "isPrototypeOf",
   "propertyIsEnumerable", "toLocaleString", "toString", "valueOf",
   "__defineGetter__", "__defineSetter__", "__lookupGetter__",
   "__lookupSetter__"}

\* MATERIAL_DATA[material] is truthy: an own entry or an inherited property
MaterialFound(material) ==
  material \in DOMAIN MATERIAL_DATA \/ material \in ObjectPrototypeNames

\* MATERIAL_DATA[material].field ; undefined on an inherited function or object
MaterialField(material, field) ==
  IF material \in DOMAIN MATERIAL_DATA
  THEN MATERIAL_DATA[material][field] ELSE Undefined

\* CATEGORY_MULTIPLIERS[category]
CategoryLookup(cat) ==
  IF cat \in DOMAIN CATEGORY_MULTIPLIERS THEN CATEGORY_MULTIPLIERS[cat]
  ELSE IF cat \in ObjectPrototypeNames THEN Inherited
  ELSE Undefined


---------------------------------------------------------------------------
(* Scoring functions *)

\* the body of the forEach of calculateMaterialScore for one entry: `score`
\* and `totalPct` after it, acc holding them before it
scoreEntry(acc, material, percentage, offset) ==
  IF Gt(percentage, Num(0)) /\ MaterialFound(material)
  THEN [score    |-> Add(acc.score,
                         Mul(Sub(MaterialField(material, "mat_score"), offset),
                             percentage)),
        totalPct |-> Add(acc.totalPct, percentage)]
  ELSE acc

\* the forEach of calculateMaterialScore over the first n entries of the
\* composition, in insertion order: `score`, started at start, and
\* `totalPct`; weights are taken relative to offset
RECURSIVE scoreForEach(_, _, _, _)
scoreForEach(composition, n, start, offset) ==
  IF n = 0 THEN [score |-> start, totalPct |-> Num(0)]
  ELSE scoreEntry(scoreForEach(composition, n - 1, start, offset),
                  composition[n][1], composition[n][2], offset)

\* score = 0.65 + (score - 0.65) * (1 / factor)
rescale(score, factor) ==
  Add(Frac(65, 100), Mul(Sub(score, Frac(65, 100)), Inv(factor)))

\* if (totalPct > 0 && totalPct !== 1.0) the score is rescaled
rescaleIfNeeded(loop) ==
  IF Gt(loop.totalPct, Num(0)) /\ loop.totalPct # Num(1)
  THEN rescale(loop.score, loop.totalPct) ELSE loop.score

\* return Math.max(0.4, Math.min(1.2, score))
clamp(score) == MathMax(Frac(4, 10), MathMin(Frac(12, 10), score))

\* variant: weights are taken relative to the 0.65 baseline instead of 0.60
calculateMaterialScore_Offset065(composition) ==
  clamp(rescaleIfNeeded(scoreForEach(composition, Len(composition),
                                     Frac(65, 100), Frac(65, 100))))

\* the value of `score` when calculateMaterialScore reaches its return
scoreBeforeClamp(composition) ==
  rescaleIfNeeded(scoreForEach(composition, Len(composition),
                               Frac(65, 100), Frac(60, 100)))

calculateMaterialScore(composition) == clamp(scoreBeforeClamp(composition))

\* CATEGORY_MULTIPLIERS[category] || CATEGORY_MULTIPLIERS.other
categoryMultOf(cat) ==
  IF Truthy(CategoryLookup(cat))
  THEN CategoryLookup(cat) ELSE CATEGORY_MULTIPLIERS.other

\* baseLifespan = 30 + (matScore - 0.65) * 60; return baseLifespan * categoryMult
predictLifespan(composition, cat) ==
  Mul(Add(Num(30), Mul(Sub(calculateMaterialScore(composition), Frac(65, 100)),
                       Num(60))),
      categoryMultOf(cat))

\* the body of the forEach of calculateImpact for one entry: co2Total and
\* waterTotal after it, acc holding them before it
impactEntry(acc, material, percentage, garmentMassKg) ==
  IF Gt(percentage, Num(0)) /\ MaterialFound(material)
  THEN [co2   |-> Add(acc.co2,
                      Mul(Mul(MaterialField(material, "co2"), percentage),
                          garmentMassKg)),
        water |-> Add(acc.water,
                      Mul(Mul(MaterialField(material, "water"), percentage),
                          garmentMassKg))]
  ELSE acc

\* the forEach of calculateImpact over the first n entries of the
\* composition, in insertion order: co2Total and waterTotal
RECURSIVE impactForEach(_, _, _)
impactForEach(composition, n, garmentMassKg) ==
  IF n = 0 THEN [co2 |-> Num(0), water |-> Num(0)]
  ELSE impactEntry(impactForEach(composition, n - 1, garmentMassKg),
                   composition[n][1], composition[n][2], garmentMassKg)

\* the totals multiplied by 1 / totalPct when totalPct is positive and not 1
normalizedTotals(totals, totalPct) ==
  IF Gt(totalPct, Num(0)) /\ totalPct # Num(1)
  THEN [co2   |-> Mul(totals.co2, Inv(totalPct)),
        water |-> Mul(totals.water, Inv(totalPct))]
  ELSE totals

\* variant: the totals are divided by the sum of the fractions, as the
\* material score is
calculateImpact_Normalized(composition, garmentMassKg) ==
  normalizedTotals(impactForEach(composition, Len(composition), garmentMassKg),
                   scoreForEach(composition, Len(composition), Num(0), Num(0)).totalPct)

\* variant: the garment mass argument is ignored in favour of the default
calculateImpact_DefaultMass(composition, garmentMassKg) ==
  impactForEach(composition, Len(composition), Frac(25, 100))

calculateImpact(composition, garmentMassKg) ==
  impactForEach(composition, Len(composition), garmentMassKg)

\* garmentMassKg = 0.25, the default parameter
DefaultMass == Frac(25, 100)

---------------------------------------------------------------------------
(* Recommendation generator: the `suggestions` memo *)

\* the entry pushed for a candidate whose lifespan and impact were computed
ImprovementOf(label, newComp, newLifespan, newImpact, curLifespan, curImpact) ==
  [ label         |-> label,
    composition   |-> newComp,
    lifespan      |-> newLifespan,
    deltaLifespan |-> Sub(newLifespan, curLifespan),
    impact        |-> newImpact,
    deltaCO2      |-> Sub(newImpact.co2, curImpact.co2) ]

\* one entry pushed on `improvements`
Improvement(label, newComp, cat, curLifespan, curImpact) ==
  ImprovementOf(label, newComp, predictLifespan(newComp, cat),
                calculateImpact(newComp, DefaultMass), curLifespan, curImpact)

\* if (baseComposition.polyester > 0.1)
RecycledPolyesterApplies(base) == Gt(Prop(base, "polyester"), Frac(1, 10))

\* variant: the polyester entry is not reset to 0
RecycledPolyesterComp_KeepPolyester(base) ==
  Spread(base, <<<<"recycled_polyester", Prop(base, "polyester")>>>>)

RecycledPolyesterComp(base) ==
  Spread(base, << <<"recycled_polyester", Prop(base, "polyester")>>,
                  <<"polyester", Num(0)>> >>)

\* variant: cotton >= 0.5
RecycledCottonApplies_AtLeast(base) == Ge(Prop(base, "cotton"), Frac(5, 10))

\* if (baseComposition.cotton > 0.5)
RecycledCottonApplies(base) == Gt(Prop(base, "cotton"), Frac(5, 10))

\* variant: the 0.8 and 0.2 shares are swapped
RecycledCottonComp_Swapped(base) ==
  Spread(base, << <<"recycled_cotton", Mul(Prop(base, "cotton"), Frac(2, 10))>>,
                  <<"cotton", Mul(Prop(base, "cotton"), Frac(8, 10))>> >>)

RecycledCottonComp(base) ==
  Spread(base, << <<"recycled_cotton", Mul(Prop(base, "cotton"), Frac(8, 10))>>,
                  <<"cotton", Mul(Prop(base, "cotton"), Frac(2, 10))>> >>)

\* variant: the test on cotton is missing
PolyesterToCottonApplies_NoCottonTest(base) ==
  Gt(Prop(base, "polyester"), Frac(3, 10))

\* if (baseComposition.polyester > 0.3 && baseComposition.cotton < 0.5)
PolyesterToCottonApplies(base) ==
  /\ Gt(Prop(base, "polyester"), Frac(3, 10))
  /\ Lt(Prop(base, "cotton"), Frac(5, 10))

\* { ...base, [from]: base[from] - reduction, [to]: (base[to] || 0) + reduction }
MoveFraction(base, from, to, reduction) ==
  Spread(base, << <<from, Sub(Prop(base, from), reduction)>>,
                  <<to, Add(OrZero(Prop(base, to)), reduction)>> >>)

\* reduction = Math.min(0.3, baseComposition.polyester)
PolyesterToCottonComp(base) ==
  MoveFraction(base, "polyester", "cotton",
               MathMin(Frac(3, 10), Prop(base, "polyester")))

\* variant: the category test is missing
LinenBlendApplies_AnyCategory(base, cat) ==
  Gt(Prop(base, "polyester"), Frac(2, 10))

\* if (['tshirt', 'dress'].includes(category) && baseComposition.polyester > 0.2)
LinenBlendApplies(base, cat) ==
  /\ cat \in {"tshirt", "dress"}
  /\ Gt(Prop(base, "polyester"), Frac(2, 10))

\* the two entries alone, without the spread of base
MoveFraction_NoSpread(base, from, to, reduction) ==
  << <<from, Sub(Prop(base, from), reduction)>>,
     <<to, Add(OrZero(Prop(base, to)), reduction)>> >>

\* variant: the candidate is built without spreading baseComposition
LinenBlendComp_NoSpread(base) ==
  MoveFraction_NoSpread(base, "polyester", "linen",
                        MathMin(Frac(3, 10), Prop(base, "polyester")))

\* reduction = Math.min(0.3, baseComposition.polyester)
LinenBlendComp(base) ==
  MoveFraction(base, "polyester", "linen",
               MathMin(Frac(3, 10), Prop(base, "polyester")))

\* the array `improvements` before the sort, in push order
Improvements(base, cat, curLifespan, curImpact) ==
  (IF RecycledPolyesterApplies(base)
   THEN <<Improvement("Switch to Recycled Polyester", RecycledPolyesterComp(base),
                      cat, curLifespan, curImpact)>>
   ELSE <<>>)
  \o
  (IF RecycledCottonApplies(base)
   THEN <<Improvement("Use 80% Recycled Cotton", RecycledCottonComp(base),
                      cat, curLifespan, curImpact)>>
   ELSE <<>>)
  \o
  (IF PolyesterToCottonApplies(base)
   THEN <<Improvement("Replace Polyester with Cotton", PolyesterToCottonComp(base),
                      cat, curLifespan, curImpact)>>
   ELSE <<>>)
  \o
  (IF LinenBlendApplies(base, cat)
   THEN <<Improvement("Add Linen Blend", LinenBlendComp(base),
                      cat, curLifespan, curImpact)>>
   ELSE <<>>)

\* deltaLifespan - deltaCO2 * 50
RankScore(x) == Sub(x.deltaLifespan, Mul(x.deltaCO2, Num(50)))

\* variant: the comparator (a, b) => score(a) - score(b)
SortCompare_Ascending(a, b) == Sub(RankScore(a), RankScore(b))

\* the comparator (a, b) => score(b) - score(a)
SortCompare(a, b) == Sub(RankScore(b), RankScore(a))

\* x placed into the sorted sequence s behind every element that does not
\* compare greater than it (Array.prototype.sort is stable)
RECURSIVE InsertSorted(_, _)
InsertSorted(s, x) ==
  IF s = <<>> THEN <<x>>
  ELSE IF Sign(SortCompare(Head(s), x)) > 0
       THEN <<x>> \o s
       ELSE <<Head(s)>> \o InsertSorted(Tail(s), x)

RECURSIVE ArraySort(_)
ArraySort(s) ==
  IF s = <<>> THEN <<>>
  ELSE InsertSorted(ArraySort(SubSeq(s, 1, Len(s) - 1)), s[Len(s)])

computeSuggestions(base, cat, curLifespan, curImpact) ==
  ArraySort(Improvements(base, cat, curLifespan, curImpact))


---------------------------------------------------------------------------
(* The component: state, memo hooks and event handlers *)

\* the value of a memo that the pending render has not computed yet
NotComputed == Undefined

NoImpact == [co2 |-> NotComputed, water |-> NotComputed]

\* number of useMemo hooks of MaterialComparator; hook counts the ones the
\* pending render has evaluated, hook = AllHooks is a finished render
AllHooks == 3

\* useState initial values
InitialComposition ==
  << <<"cotton", Num(1)>>, <<"polyester", Num(0)>>, <<"wool", Num(0)>>,
     <<"elastane", Num(0)>> >>

presetCompositions ==
  [ p100Cotton     |-> << <<"cotton", Num(1)>>, <<"polyester", Num(0)>>,
                          <<"wool", Num(0)>>, <<"elastane", Num(0)>> >>,
    p5050          |-> << <<"cotton", Frac(5, 10)>>, <<"polyester", Frac(5, 10)>>,
                          <<"wool", Num(0)>>, <<"elastane", Num(0)>> >>,
    p100Polyester  |-> << <<"cotton", Num(0)>>, <<"polyester", Num(1)>>,
                          <<"wool", Num(0)>>, <<"elastane", Num(0)>> >>,
    pCottonSpandex |-> << <<"cotton", Frac(95, 100)>>, <<"polyester", Num(0)>>,
                          <<"wool", Num(0)>>, <<"elastane", Frac(5, 100)>> >>,
    pWoolBlend     |-> << <<"cotton", Num(0)>>, <<"polyester", Num(0)>>,
                          <<"wool", Num(1)>>, <<"elastane", Num(0)>> >> ]

\* the <option> values of the category <select>
SelectCategories == {"tshirt", "sweater", "jacket", "dress", "trousers", "jeans"}

\* the materials that get a slider
SliderMaterials ==
  {"cotton", "recycled_cotton", "polyester", "recycled_polyester", "wool",
   "linen", "elastane"}

\* the positions of a slider: min 0, max 1, step 0.05; parseFloat reads the
\* decimal string of a position as the nearest double
SliderValues == {Frac(5 * i, 100) : i \in 0..20}

\* at most this many events (slider moves, preset clicks, category
\* selections) are handled after the component has mounted
MaxEvents == 2

\* at most this many of them are slider moves
MaxSliderMoves == 1

\* no useMemo has been evaluated
NoDeps == [currentLifespan |-> <<>>, currentImpact |-> <<>>, suggestions |-> <<>>]

\* the object useState was called with, and no currentImpact object
FirstIdentities == [currentComposition |-> 1, currentImpact |-> 0]

\* the dependency lists of the three useMemo calls in the running render;
\* React compares each entry with Object.is: objects by identity, strings
\* and numbers by value
lifespanDeps == <<identity.currentComposition, category>>

impactDeps == <<identity.currentComposition>>

suggestionsDeps ==
  <<identity.currentComposition, category, currentLifespan, identity.currentImpact>>

\* the first useMemo, currentLifespan: evaluated when a dependency changed,
\* else the value of the last evaluation is returned
EvalCurrentLifespan ==
  /\ hook = 0
  /\ IF deps.currentLifespan = lifespanDeps
     THEN UNCHANGED <<currentLifespan, deps>>
     ELSE /\ currentLifespan' = predictLifespan(currentComposition, category)
          /\ deps' = [deps EXCEPT !.currentLifespan = lifespanDeps]
  /\ hook' = 1
  /\ UNCHANGED <<currentComposition, category, currentImpact, suggestions,
                 identity, handled, moved, others>>

\* the second useMemo, currentImpact; calculateImpact returns a new object
EvalCurrentImpact ==
  /\ hook = 1
  /\ IF deps.currentImpact = impactDeps
     THEN UNCHANGED <<currentImpact, deps, identity>>
     ELSE /\ currentImpact' = calculateImpact(currentComposition, DefaultMass)
          /\ deps' = [deps EXCEPT !.currentImpact = impactDeps]
          /\ identity' = [identity EXCEPT !.currentImpact = handled + 1]
  /\ hook' = 2
  /\ UNCHANGED <<currentComposition, category, currentLifespan, suggestions,
                 handled, moved, others>>

\* variant: the recycled-polyester heuristic assigns into baseComposition
\* instead of spreading it into a new object
EvalSuggestions_InPlace ==
  /\ hook = 2
  /\ IF deps.suggestions = suggestionsDeps
     THEN UNCHANGED <<suggestions, deps, currentComposition>>
     ELSE /\ suggestions' = computeSuggestions(currentComposition, category,
                                               currentLifespan, currentImpact)
          /\ deps' = [deps EXCEPT !.suggestions = suggestionsDeps]
          /\ currentComposition' = IF RecycledPolyesterApplies(currentComposition)
                                   THEN RecycledPolyesterComp(currentComposition)
                                   ELSE currentComposition
  /\ hook' = AllHooks
  /\ UNCHANGED <<category, currentLifespan, currentImpact, identity, handled,
                 moved, others>>

\* the third useMemo, suggestions
EvalSuggestions ==
  /\ hook = 2
  /\ IF deps.suggestions = suggestionsDeps
     THEN UNCHANGED <<suggestions, deps>>
     ELSE /\ suggestions' = computeSuggestions(currentComposition, category,
                                               currentLifespan, currentImpact)
          /\ deps' = [deps EXCEPT !.suggestions = suggestionsDeps]
  /\ hook' = AllHooks
  /\ UNCHANGED <<currentComposition, category, currentLifespan, currentImpact,
                 identity, handled, moved, others>>

\* a state change schedules a render; the values and dependency lists of
\* the memos stay as the last render left them
Rerender ==
  /\ hook' = 0
  /\ handled' = handled + 1
  /\ UNCHANGED <<currentLifespan, currentImpact, suggestions, deps, others>>

\* setCurrentComposition(object) with an object created after the last
\* render: newComp of updateComposition, or a preset, which the render
\* creates anew
setCurrentComposition(object) ==
  /\ currentComposition' = object
  /\ identity' = [identity EXCEPT !.currentComposition = handled + 2]

\* onChange of the slider of a material: the change event fires when the
\* position differs from the one displayed, currentComposition[mat] || 0
updateComposition(material, value) ==
  LET newComp == Spread(currentComposition,
                        <<<<material, MathMax(Num(0), MathMin(Num(1), value))>>>>)
  IN  /\ hook = AllHooks
      /\ handled < MaxEvents
      /\ moved < MaxSliderMoves
      /\ value # OrZero(Prop(currentComposition, material))
      /\ setCurrentComposition(newComp)
      /\ moved' = moved + 1
      /\ UNCHANGED category
      /\ Rerender

\* onClick of a preset button
SelectPreset(name) ==
  /\ hook = AllHooks
  /\ handled < MaxEvents
  /\ setCurrentComposition(presetCompositions[name])
  /\ UNCHANGED <<category, moved>>
  /\ Rerender

\* onChange of the category <select>: another option was chosen
setCategory(cat) ==
  /\ hook = AllHooks
  /\ handled < MaxEvents
  /\ cat # category
  /\ category' = cat
  /\ UNCHANGED <<currentComposition, identity, moved>>
  /\ Rerender

\* the component before its first render
Init ==
  /\ currentComposition = InitialComposition
  /\ category = "tshirt"
  /\ currentLifespan = NotComputed
  /\ currentImpact = NoImpact
  /\ suggestions = <<>>
  /\ hook = 0
  /\ deps = NoDeps
  /\ identity = FirstIdentities
  /\ handled = 0
  /\ moved = 0
  /\ OthersIdle

Next ==
  \/ EvalCurrentLifespan
  \/ EvalCurrentImpact
  \/ EvalSuggestions
  \/ \E m \in SliderMaterials, v \in SliderValues : updateComposition(m, v)
  \/ \E name \in DOMAIN presetCompositions : SelectPreset(name)
  \/ \E cat \in SelectCategories : setCategory(cat)

Spec == Init /\ [][Next]_vars

---------------------------------------------------------------------------
(* The scoring functions and the memo bodies on arbitrary arguments: one   *)
(* render of the component whose state is any composition and category.    *)

InputNames == {"cotton", "polyester", "recycled_polyester", "hemp"}

InputFractions == {Num(0), Frac(3, 10), Num(1)}

\* a composition of the grid has at most this many entries
MaxEntries == 2

\* the objects with n entries, in every insertion order
ObjectsOf(names, values, n) ==
  {o \in [1..n -> names \X values] :
     \A i \in 1..n : \A j \in 1..n : i # j => o[i][1] # o[j][1]}

\* fractions far below a slider step, 2^-40 and 3 * 2^-54: the sum of the
\* fractions is then small against the 0.65 the score is accumulated on
TinyFraction == Mul(Inv(Num(1048576)), Inv(Num(1048576)))

TiniestFraction ==
  Mul(Mul(Num(3), Inv(Num(262144))), Mul(Inv(Num(262144)), Inv(Num(262144))))

\* a garment mass of 0.25 * 2^20 kg and a scale factor of 3 * 2^20
LargeMass == Mul(Frac(25, 100), Num(1048576))

LargeScalar == Num(3145728)

\* compositions outside the grid: fractions at the thresholds of the
\* heuristics, sums that round, the same entries in several insertion
\* orders, a sum above 1, a negative fraction and fractions far below a
\* slider step
ExtraCompositions ==
  { << <<"cotton", Frac(1, 20)>>, <<"linen", Frac(1, 8)>>, <<"polyester", Frac(7, 20)>> >>,
    << <<"polyester", Frac(7, 20)>>, <<"linen", Frac(1, 8)>>, <<"cotton", Frac(1, 20)>> >>,
    << <<"cotton", Frac(1, 20)>>, <<"polyester", Frac(7, 20)>>, <<"linen", Frac(1, 8)>> >>,
    << <<"polyester", Frac(3, 2)>>, <<"elastane", Frac(1, 2)>> >>,
    << <<"cotton", Frac(-1, 4)>>, <<"polyester", Num(1)>>, <<"nylon", Frac(1, 2)>> >>,
    << <<"cotton", Num(1)>>, <<"recycled_cotton", Num(1)>> >>,
    << <<"cotton", Frac(1, 2)>>, <<"polyester", Frac(1, 2)>> >>,
    << <<"cotton", Num(1)>>, <<"polyester", Frac(1, 2)>> >>,
    << <<"polyester", Num(1)>>, <<"hemp", Frac(1, 2)>> >>,
    << <<"wool", Num(1)>> >>,
    << <<"cotton", TinyFraction>> >>,
    << <<"cotton", TiniestFraction>> >>,
    << <<"cotton", Frac(1, 10)>> >>,
    << <<"cotton", Frac(1, 2)>> >>,
    << <<"polyester", Frac(1, 10)>> >>,
    << <<"polyester", Frac(2, 10)>> >>,
    << <<"recycled_cotton", Frac(1, 2)>>, <<"cotton", Frac(6, 10)>> >>,
    << <<"polyester", Frac(7, 10)>>, <<"linen", Frac(3, 10)>> >>,
    << <<"cotton", Frac(2, 10)>>, <<"polyester", Frac(7, 10)>>,
       <<"elastane", Frac(1, 10)>> >> }

InputCompositions ==
  UNION {ObjectsOf(InputNames, InputFractions, n) : n \in 0..MaxEntries}
  \cup ExtraCompositions

\* the keys of CATEGORY_MULTIPLIERS and a category that is not one of them
InputCategories == DOMAIN CATEGORY_MULTIPLIERS \cup {"skirt"}

\* garment masses (kg) and scale factors the relational properties range over
InputMasses == {Frac(1, 10), Frac(25, 100), Frac(1, 2), Num(1), LargeMass}

InputScalars ==
  {Frac(1, 5), Frac(1, 2), Num(2), Num(3), TinyFraction, LargeScalar}

InitFn ==
  /\ currentComposition \in InputCompositions
  /\ category \in InputCategories
  /\ currentLifespan = NotComputed
  /\ currentImpact = NoImpact
  /\ suggestions = <<>>
  /\ hook = 0
  /\ deps = NoDeps
  /\ identity = FirstIdentities
  /\ handled = 0
  /\ moved = 0
  /\ OthersIdle

NextFn == EvalCurrentLifespan \/ EvalCurrentImpact \/ EvalSuggestions

SpecFn == InitFn /\ [][NextFn]_vars

---------------------------------------------------------------------------
(* The same render on arbitrary strings: material and category names that  *)
(* are keys of the tables, names that are keys of nothing, and names every *)
(* JavaScript object inherits.                                             *)

AnyNames == {"cotton", "polyester", "hemp", "constructor", "toString"}

AnyFractions == {Num(0), Frac(1, 2), Num(1)}

AnyCompositions ==
  UNION {ObjectsOf(AnyNames, AnyFractions, n) : n \in 0..MaxEntries}

AnyCategories == {"tshirt", "dress", "other", "skirt", "constructor", "valueOf"}

InitAny ==
  /\ currentComposition \in AnyCompositions
  /\ category \in AnyCategories
  /\ currentLifespan = NotComputed
  /\ currentImpact = NoImpact
  /\ suggestions = <<>>
  /\ hook = 0
  /\ deps = NoDeps
  /\ identity = FirstIdentities
  /\ handled = 0
  /\ moved = 0
  /\ OthersIdle

SpecAny == InitAny /\ [][NextFn]_vars

\* the MaterialComparator component is not mounted
ComparatorIdle ==
  /\ currentComposition = InitialComposition
  /\ category = "tshirt"
  /\ currentLifespan = NotComputed
  /\ currentImpact = NoImpact
  /\ suggestions = <<>>
  /\ hook = 0
  /\ deps = NoDeps
  /\ identity = FirstIdentities
  /\ handled = 0
  /\ moved = 0

comparatorVars == <<currentComposition, category, currentLifespan,
                    currentImpact, suggestions, hook, deps, identity, handled,
                    moved>>

\* the state outside each of the other components
outsideParse == <<comparatorVars, homeVars, serviceVars, improveVars>>

outsideHome == <<comparatorVars, parseVars, serviceVars, improveVars>>

outsideService == <<comparatorVars, parseVars, homeVars, improveVars>>

outsideImprove == <<comparatorVars, parseVars, homeVars, serviceVars>>

---------------------------------------------------------------------------
(* parseCompositionText (services/hmApi.js).  The text is represented by   *)
(* the matches of the first pattern that yields a valid entry: a sequence  *)
(* of pairs of the material name, trimmed and passed through               *)
(* normalizeMaterialName, and the integer parseInt read.  Percentages are  *)
(* integers.                                                               *)

\* Math.round(value / total * 100): the double quotient, the double product
\* and the nearest integer, a half rounding up (23 / 40 * 100 is
\* 57.49999999999999 and rounds to 57)
RoundPercent(value, total) ==
  MathRound(Mul(Div(Num(value), Num(total)), Num(100)))

RECURSIVE SumInt(_, _)
SumInt(f, S) ==
  IF S = {} THEN 0
  ELSE LET k == CHOOSE e \in S : TRUE
       IN  f[k] + SumInt(f, S \ {k})

\* the loop over the matches: composition[material] = percentage for every
\* match with 0 < percentage <= 100 and a non-empty material, later matches
\* of a material overwriting earlier ones
RECURSIVE CollectMatches(_)
CollectMatches(ms) ==
  IF ms = <<>> THEN <<>>
  ELSE LET before == CollectMatches(SubSeq(ms, 1, Len(ms) - 1))
           m      == ms[Len(ms)]
       IN  IF m.percentage > 0 /\ m.percentage <= 100 /\ m.material # ""
           THEN [k \in DOMAIN before \cup {m.material} |->
                   IF k = m.material THEN m.percentage ELSE before[k]]
           ELSE before

parseCompositionText(ms) ==
  LET collected == CollectMatches(ms)
      total     == SumInt(collected, DOMAIN collected)
  IN  IF total > 0 /\ total # 100
      THEN [k \in DOMAIN collected |-> RoundPercent(collected[k], total)]
      ELSE collected

MatchMaterials == {"Cotton", "Polyester", "Wool", ""}

MatchPercentages == {0, 30, 33, 50, 150}

\* a text has at most this many matches
MaxMatches == 3

MatchSequences ==
  UNION {[1..n -> [material : MatchMaterials, percentage : MatchPercentages]] :
           n \in 0..MaxMatches}

CallParse ==
  /\ ~parseDone
  /\ parsed' = parseCompositionText(matches)
  /\ parseDone' = TRUE
  /\ UNCHANGED <<matches, outsideParse>>

InitParse ==
  /\ matches \in MatchSequences
  /\ parsed = <<>>
  /\ parseDone = FALSE
  /\ ComparatorIdle
  /\ HomeIdle
  /\ ServiceIdle
  /\ ImproveIdle

NextParse == CallParse

SpecParse == InitParse /\ [][NextParse]_vars

---------------------------------------------------------------------------
(* HomePage (pages/HomePage.js): search, items per page and pagination.    *)
(* A product is an integer.  The state updates handleSearch makes before   *)
(* its await belong to one event handler and are one step; those after the *)
(* await are one step each, in program order.                              *)

\* setError('Failed to fetch products. Please try again.')
FetchFailed == "Failed to fetch products. Please try again."

\* arr.slice(start, end) for 0 <= start; a negative end counts from the end
slice(arr, start, end) ==
  SubSeq(arr, start + 1,
         IF end < 0 THEN (IF Len(arr) + end < 0 THEN 0 ELSE Len(arr) + end)
         ELSE IF end < Len(arr) THEN end ELSE Len(arr))

\* Math.ceil(a / b) for integers a and b > 0 (\div rounds down)
MathCeilDiv(a, b) == (a + b - 1) \div b

totalPages == MathCeilDiv(Len(allProducts), itemsPerPage)

\* the entry '...' of the page list (no page has this number)
Ellipsis == 0

maxPagesToShow == 5

\* variant: all pages are listed only up to four pages
getPageNumbers_ShowFour(current, total) ==
  IF total <= 4
  THEN [i \in 1..total |-> i]
  ELSE IF current <= 3
       THEN <<1, 2, 3, 4, Ellipsis, total>>
       ELSE IF current >= total - 2
            THEN <<1, Ellipsis, total - 3, total - 2, total - 1, total>>
            ELSE <<1, Ellipsis, current - 1, current, current + 1, Ellipsis, total>>

\* getPageNumbers() with currentPage = current and totalPages = total
getPageNumbers(current, total) ==
  IF total <= maxPagesToShow
  THEN [i \in 1..total |-> i]
  ELSE IF current <= 3
       THEN <<1, 2, 3, 4, Ellipsis, total>>
       ELSE IF current >= total - 2
            THEN <<1, Ellipsis, total - 3, total - 2, total - 1, total>>
            ELSE <<1, Ellipsis, current - 1, current, current + 1, Ellipsis, total>>

\* {!loading && allProducts.length > 0 && (...)}
ResultsShown == ~loading /\ Len(allProducts) > 0

\* {totalPages > 1 && (...)} inside the results
PaginationShown == ResultsShown /\ totalPages > 1

\* the <option> values of the items-per-page selector
ItemsPerPageOptions == {5, 10, 15, 20, 50}

SearchQueries == {"", "dress"}

\* the lists a search resolves with: products t + 1 .. t + n
ResultLengths == {0, 1, 5, 6, 26, 31, 50}

ResultTags == {0, 100}

ResultLists == {[i \in 1..n |-> t + i] : n \in ResultLengths, t \in ResultTags}

\* onChange of the search input
setSearchQuery ==
  /\ \E q \in SearchQueries \ {searchQuery} : searchQuery' = q
  /\ UNCHANGED <<allProducts, displayedProducts, loading, error, itemsPerPage,
                 currentPage, searchRun>>
  /\ UNCHANGED outsideHome

\* handleSearch up to its await; the submit button is disabled while loading
handleSearch ==
  /\ ~loading
  /\ loading' = TRUE
  /\ error' = NoError
  /\ currentPage' = 1
  /\ searchRun' = [pc |-> "await", itemsPerPage |-> itemsPerPage,
                   results |-> <<>>, failed |-> FALSE]
  /\ UNCHANGED <<searchQuery, allProducts, displayedProducts, itemsPerPage>>
  /\ UNCHANGED outsideHome

\* the promise of searchProducts(searchQuery, 50) is fulfilled
SearchResolves ==
  /\ searchRun.pc = "await"
  /\ \E r \in ResultLists :
       searchRun' = [searchRun EXCEPT !.pc = "setAllProducts", !.results = r]
  /\ UNCHANGED <<searchQuery, allProducts, displayedProducts, loading, error,
                 itemsPerPage, currentPage>>
  /\ UNCHANGED outsideHome

\* the promise of searchProducts(searchQuery, 50) is rejected
SearchRejects ==
  /\ searchRun.pc = "await"
  /\ searchRun' = [searchRun EXCEPT !.pc = "setError", !.failed = TRUE]
  /\ UNCHANGED <<searchQuery, allProducts, displayedProducts, loading, error,
                 itemsPerPage, currentPage>>
  /\ UNCHANGED outsideHome

\* setAllProducts(results)
TrySetAllProducts ==
  /\ searchRun.pc = "setAllProducts"
  /\ allProducts' = searchRun.results
  /\ searchRun' = [searchRun EXCEPT !.pc = "setDisplayedProducts"]
  /\ UNCHANGED <<searchQuery, displayedProducts, loading, error, itemsPerPage,
                 currentPage>>
  /\ UNCHANGED outsideHome

\* setDisplayedProducts(results.slice(0, itemsPerPage))
TrySetDisplayedProducts ==
  /\ searchRun.pc = "setDisplayedProducts"
  /\ displayedProducts' = slice(searchRun.results, 0, searchRun.itemsPerPage)
  /\ searchRun' = [searchRun EXCEPT !.pc = "finally"]
  /\ UNCHANGED <<searchQuery, allProducts, loading, error, itemsPerPage,
                 currentPage>>
  /\ UNCHANGED outsideHome

\* catch: setError(...)
CatchSetError ==
  /\ searchRun.pc = "setError"
  /\ error' = FetchFailed
  /\ searchRun' = [searchRun EXCEPT !.pc = "catchSetAllProducts"]
  /\ UNCHANGED <<searchQuery, allProducts, displayedProducts, loading,
                 itemsPerPage, currentPage>>
  /\ UNCHANGED outsideHome

\* catch: setAllProducts([])
CatchSetAllProducts ==
  /\ searchRun.pc = "catchSetAllProducts"
  /\ allProducts' = <<>>
  /\ searchRun' = [searchRun EXCEPT !.pc = "catchSetDisplayedProducts"]
  /\ UNCHANGED <<searchQuery, displayedProducts, loading, error, itemsPerPage,
                 currentPage>>
  /\ UNCHANGED outsideHome

\* catch: setDisplayedProducts([])
CatchSetDisplayedProducts ==
  /\ searchRun.pc = "catchSetDisplayedProducts"
  /\ displayedProducts' = <<>>
  /\ searchRun' = [searchRun EXCEPT !.pc = "finally"]
  /\ UNCHANGED <<searchQuery, allProducts, loading, error, itemsPerPage,
                 currentPage>>
  /\ UNCHANGED outsideHome

\* finally: setLoading(false); handleSearch returns
FinallySetLoading ==
  /\ searchRun.pc = "finally"
  /\ loading' = FALSE
  /\ searchRun' = NoSearchRun
  /\ UNCHANGED <<searchQuery, allProducts, displayedProducts, error,
                 itemsPerPage, currentPage>>
  /\ UNCHANGED outsideHome

\* onChange of the selector, rendered with the results
handleItemsPerPageChange ==
  /\ ResultsShown
  /\ \E newItemsPerPage \in ItemsPerPageOptions \ {itemsPerPage} :
       /\ itemsPerPage' = newItemsPerPage
       /\ currentPage' = 1
       /\ displayedProducts' = slice(allProducts, 0, newItemsPerPage)
  /\ UNCHANGED <<searchQuery, allProducts, loading, error, searchRun>>
  /\ UNCHANGED outsideHome

\* the pages the enabled pagination buttons pass to handlePageChange
ClickablePages ==
  LET pages == getPageNumbers(currentPage, totalPages)
  IN  {currentPage - 1 : x \in {1} \ {currentPage}}
        \cup {currentPage + 1 : x \in {totalPages} \ {currentPage}}
        \cup {pages[i] : i \in {j \in DOMAIN pages : pages[j] # Ellipsis}}

\* variant: the first index is newPage * itemsPerPage
handlePageChange_FromNext ==
  /\ PaginationShown
  /\ \E newPage \in ClickablePages :
       LET startIndex == newPage * itemsPerPage
           endIndex   == startIndex + itemsPerPage
       IN  /\ currentPage' = newPage
           /\ displayedProducts' = slice(allProducts, startIndex, endIndex)
  /\ UNCHANGED <<searchQuery, allProducts, loading, error, itemsPerPage,
                 searchRun>>
  /\ UNCHANGED outsideHome

\* onClick of Previous, Next and the page buttons
handlePageChange ==
  /\ PaginationShown
  /\ \E newPage \in ClickablePages :
       LET startIndex == (newPage - 1) * itemsPerPage
           endIndex   == startIndex + itemsPerPage
       IN  /\ currentPage' = newPage
           /\ displayedProducts' = slice(allProducts, startIndex, endIndex)
  /\ UNCHANGED <<searchQuery, allProducts, loading, error, itemsPerPage,
                 searchRun>>
  /\ UNCHANGED outsideHome

InitHome ==
  /\ HomeIdle
  /\ ComparatorIdle
  /\ ParseIdle
  /\ ServiceIdle
  /\ ImproveIdle

NextHome ==
  \/ setSearchQuery
  \/ handleSearch
  \/ SearchResolves
  \/ SearchRejects
  \/ TrySetAllProducts
  \/ TrySetDisplayedProducts
  \/ CatchSetError
  \/ CatchSetAllProducts
  \/ CatchSetDisplayedProducts
  \/ FinallySetLoading
  \/ handleItemsPerPageChange
  \/ handlePageChange

SpecHome == InitHome /\ [][NextHome]_vars

\* the steps of handleSearch after its await run once they can: the event
\* loop resumes the handler when the awaited promise has settled.  Nothing
\* makes the promise settle: the request of searchProducts in
\* services/hmApi.js, which HomePage.js imports, sets no timeout, so there is
\* no fairness on SearchResolves and SearchRejects.
SpecHomeFair ==
  /\ SpecHome
  /\ WF_vars(TrySetAllProducts)
  /\ WF_vars(TrySetDisplayedProducts)
  /\ WF_vars(CatchSetError)
  /\ WF_vars(CatchSetAllProducts)
  /\ WF_vars(CatchSetDisplayedProducts)
  /\ WF_vars(FinallySetLoading)

---------------------------------------------------------------------------
(* searchProducts, fetchFromLadiesAll, processProducts and                 *)
(* fetchProductDetail (services/hmApi.js, the version with paging).  An    *)
(* item of a product list is a record of its swatches[0].articleId and its *)
(* id (0 when absent) and of whether its productName includes the query;   *)
(* a product code is a positive integer, and a returned product is its     *)
(* code.                                                                     *)

CATEGORY_MAP ==
  [ dress      |-> "ladies_dresses",
    dresses    |-> "ladies_dresses",
    top        |-> "ladies_tops",
    tops       |-> "ladies_tops",
    shirt      |-> "ladies_tops",
    shirts     |-> "ladies_tops",
    blouse     |-> "ladies_tops",
    tshirt     |-> "ladies_tops",
    jeans      |-> "ladies_jeans",
    denim      |-> "ladies_jeans",
    pants      |-> "ladies_trousers",
    trousers   |-> "ladies_trousers",
    skirt      |-> "ladies_skirts",
    jacket     |-> "ladies_jacketscoats",
    coat       |-> "ladies_jacketscoats",
    sweater    |-> "ladies_cardigansjumpers",
    cardigan   |-> "ladies_cardigansjumpers",
    hoodie     |-> "ladies_hoodiesswetshirts",
    sweatshirt |-> "ladies_hoodiesswetshirts",
    swimwear   |-> "ladies_swimwear",
    swimsuit   |-> "ladies_swimwear" ] @@ ("t-shirt" :> "ladies_tops")

\* A JavaScript string is the sequence of its UTF-16 code units, numbers in
\* 0..65535: "A" is <<65>>, a form feed <<12>>, U+10400 the pair
\* <<55297, 56320>>.

\* the printable ASCII characters a string literal of this module can hold
\* (all but the double quote, the backslash and the grave accent), as runs
\* <<code unit of the first character, characters>>
AsciiRuns ==
  { <<32, " !">>,
    <<35, "#$%&'()*+,-./0123456789:;<=>?@ABCDEFGHIJKLMNOPQRSTUVWXYZ[">>,
    <<93, "]^_">>,
    <<97, "abcdefghijklmnopqrstuvwxyz{|}~">> }

\* the code unit of the character c of such a literal
CodeUnitOf(c) ==
  CHOOSE unit \in 32..126 :
    \E run \in AsciiRuns :
      /\ unit - run[1] + 1 \in 1..Len(run[2])
      /\ SubSeq(run[2], unit - run[1] + 1, unit - run[1] + 1) = c

\* the JavaScript string a string literal denotes
CodeUnits(literal) ==
  [i \in 1..Len(literal) |-> CodeUnitOf(SubSeq(literal, i, i))]

\* the keys of CATEGORY_MAP in the order Object.entries lists them
CategoryTerms ==
  << "dress", "dresses", "top", "tops", "shirt", "shirts", "blouse", "tshirt",
     "t-shirt", "jeans", "denim", "pants", "trousers", "skirt", "jacket",
     "coat", "sweater", "cardigan", "hoodie", "sweatshirt", "swimwear",
     "swimsuit" >>

\* String.prototype.includes: term occurs in s as a run of code units
StringIncludes(s, term) ==
  \/ term = <<>>
  \/ \E i \in 1..(Len(s) - Len(term) + 1) : SubSeq(s, i, i + Len(term) - 1) = term

IsLeadSurrogate(unit) == unit \in 55296..56319

IsTrailSurrogate(unit) == unit \in 56320..57343

\* StringToCodePoints: a lead surrogate followed by a trail surrogate is one
\* code point above U+FFFF, any other code unit is a code point by itself
RECURSIVE StringToCodePoints(_, _)
StringToCodePoints(s, i) ==
  IF i > Len(s) THEN <<>>
  ELSE IF i < Len(s) /\ IsLeadSurrogate(s[i]) /\ IsTrailSurrogate(s[i + 1])
       THEN <<65536 + (s[i] - 55296) * 1024 + (s[i + 1] - 56320)>>
              \o StringToCodePoints(s, i + 2)
       ELSE <<s[i]>> \o StringToCodePoints(s, i + 1)

\* CodePointsToString: the UTF-16 encoding of the code points
RECURSIVE CodePointsToString(_, _)
CodePointsToString(cps, i) ==
  IF i > Len(cps) THEN <<>>
  ELSE IF cps[i] > 65535
       THEN <<55296 + ((cps[i] - 65536) \div 1024),
              56320 + ((cps[i] - 65536) % 1024)>> \o CodePointsToString(cps, i + 1)
       ELSE <<cps[i]>> \o CodePointsToString(cps, i + 1)

\* The lower-case mappings of one code point to one code point (the Unicode
\* Character Database, version 17.0, that toLowerCase applies): an entry
\* <<first, last, delta, stride>> maps first, first + stride, ..., last to
\* themselves plus delta.
LowerCaseMappings ==
  { <<65, 90, 32, 1>>, <<192, 214, 32, 1>>, <<216, 222, 32, 1>>,
    <<256, 302, 1, 2>>, <<306, 310, 1, 2>>, <<313, 327, 1, 2>>,
    <<330, 374, 1, 2>>, <<376, 376, -121, 1>>, <<377, 381, 1, 2>>,
    <<385, 385, 210, 1>>, <<386, 388, 1, 2>>, <<390, 390, 206, 1>>,
    <<391, 391, 1, 1>>, <<393, 394, 205, 1>>, <<395, 395, 1, 1>>,
    <<398, 398, 79, 1>>, <<399, 399, 202, 1>>, <<400, 400, 203, 1>>,
    <<401, 401, 1, 1>>, <<403, 403, 205, 1>>, <<404, 404, 207, 1>>,
    <<406, 406, 211, 1>>, <<407, 407, 209, 1>>, <<408, 408, 1, 1>>,
    <<412, 412, 211, 1>>, <<413, 413, 213, 1>>, <<415, 415, 214, 1>>,
    <<416, 420, 1, 2>>, <<422, 422, 218, 1>>, <<423, 423, 1, 1>>,
    <<425, 425, 218, 1>>, <<428, 428, 1, 1>>, <<430, 430, 218, 1>>,
    <<431, 431, 1, 1>>, <<433, 434, 217, 1>>, <<435, 437, 1, 2>>,
    <<439, 439, 219, 1>>, <<440, 440, 1, 1>>, <<444, 444, 1, 1>>,
    <<452, 452, 2, 1>>, <<453, 453, 1, 1>>, <<455, 455, 2, 1>>,
    <<456, 456, 1, 1>>, <<458, 458, 2, 1>>, <<459, 475, 1, 2>>,
    <<478, 494, 1, 2>>, <<497, 497, 2, 1>>, <<498, 500, 1, 2>>,
    <<502, 502, -97, 1>>, <<503, 503, -56, 1>>, <<504, 542, 1, 2>>,
    <<544, 544, -130, 1>>, <<546, 562, 1, 2>>, <<570, 570, 10795, 1>>,
    <<571, 571, 1, 1>>, <<573, 573, -163, 1>>, <<574, 574, 10792, 1>>,
    <<577, 577, 1, 1>>, <<579, 579, -195, 1>>, <<580, 580, 69, 1>>,
    <<581, 581, 71, 1>>, <<582, 590, 1, 2>>, <<880, 882, 1, 2>>,
    <<886, 886, 1, 1>>, <<895, 895, 116, 1>>, <<902, 902, 38, 1>>,
    <<904, 906, 37, 1>>, <<908, 908, 64, 1>>, <<910, 911, 63, 1>>,
    <<913, 929, 32, 1>>, <<931, 939, 32, 1>>, <<975, 975, 8, 1>>,
    <<984, 1006, 1, 2>>, <<1012, 1012, -60, 1>>, <<1015, 1015, 1, 1>>,
    <<1017, 1017, -7, 1>>, <<1018, 1018, 1, 1>>, <<1021, 1023, -130, 1>>,
    <<1024, 1039, 80, 1>>, <<1040, 1071, 32, 1>>, <<1120, 1152, 1, 2>>,
    <<1162, 1214, 1, 2>>, <<1216, 1216, 15, 1>>, <<1217, 1229, 1, 2>>,
    <<1232, 1326, 1, 2>>, <<1329, 1366, 48, 1>>, <<4256, 4293, 7264, 1>>,
    <<4295, 4295, 7264, 1>>, <<4301, 4301, 7264, 1>>,
    <<5024, 5103, 38864, 1>>, <<5104, 5109, 8, 1>>, <<7305, 7305, 1, 1>>,
    <<7312, 7354, -3008, 1>>, <<7357, 7359, -3008, 1>>, <<7680, 7828, 1, 2>>,
    <<7838, 7838, -7615, 1>>, <<7840, 7934, 1, 2>>, <<7944, 7951, -8, 1>>,
    <<7960, 7965, -8, 1>>, <<7976, 7983, -8, 1>>, <<7992, 7999, -8, 1>>,
    <<8008, 8013, -8, 1>>, <<8025, 8031, -8, 2>>, <<8040, 8047, -8, 1>>,
    <<8072, 8079, -8, 1>>, <<8088, 8095, -8, 1>>, <<8104, 8111, -8, 1>>,
    <<8120, 8121, -8, 1>>, <<8122, 8123, -74, 1>>, <<8124, 8124, -9, 1>>,
    <<8136, 8139, -86, 1>>, <<8140, 8140, -9, 1>>, <<8152, 8153, -8, 1>>,
    <<8154, 8155, -100, 1>>, <<8168, 8169, -8, 1>>, <<8170, 8171, -112, 1>>,
    <<8172, 8172, -7, 1>>, <<8184, 8185, -128, 1>>, <<8186, 8187, -126, 1>>,
    <<8188, 8188, -9, 1>>, <<8486, 8486, -7517, 1>>, <<8490, 8490, -8383, 1>>,
    <<8491, 8491, -8262, 1>>, <<8498, 8498, 28, 1>>, <<8544, 8559, 16, 1>>,
    <<8579, 8579, 1, 1>>, <<9398, 9423, 26, 1>>, <<11264, 11311, 48, 1>>,
    <<11360, 11360, 1, 1>>, <<11362, 11362, -10743, 1>>,
    <<11363, 11363, -3814, 1>>, <<11364, 11364, -10727, 1>>,
    <<11367, 11371, 1, 2>>, <<11373, 11373, -10780, 1>>,
    <<11374, 11374, -10749, 1>>, <<11375, 11375, -10783, 1>>,
    <<11376, 11376, -10782, 1>>, <<11378, 11378, 1, 1>>,
    <<11381, 11381, 1, 1>>, <<11390, 11391, -10815, 1>>,
    <<11392, 11490, 1, 2>>, <<11499, 11501, 1, 2>>, <<11506, 11506, 1, 1>>,
    <<42560, 42604, 1, 2>>, <<42624, 42650, 1, 2>>, <<42786, 42798, 1, 2>>,
    <<42802, 42862, 1, 2>>, <<42873, 42875, 1, 2>>,
    <<42877, 42877, -35332, 1>>, <<42878, 42886, 1, 2>>,
    <<42891, 42891, 1, 1>>, <<42893, 42893, -42280, 1>>,
    <<42896, 42898, 1, 2>>, <<42902, 42920, 1, 2>>,
    <<42922, 42922, -42308, 1>>, <<42923, 42923, -42319, 1>>,
    <<42924, 42924, -42315, 1>>, <<42925, 42925, -42305, 1>>,
    <<42926, 42926, -42308, 1>>, <<42928, 42928, -42258, 1>>,
    <<42929, 42929, -42282, 1>>, <<42930, 42930, -42261, 1>>,
    <<42931, 42931, 928, 1>>, <<42932, 42946, 1, 2>>,
    <<42948, 42948, -48, 1>>, <<42949, 42949, -42307, 1>>,
    <<42950, 42950, -35384, 1>>, <<42951, 42953, 1, 2>>,
    <<42955, 42955, -42343, 1>>, <<42956, 42970, 1, 2>>,
    <<42972, 42972, -42561, 1>>, <<42997, 42997, 1, 1>>,
    <<65313, 65338, 32, 1>>, <<66560, 66599, 40, 1>>, <<66736, 66771, 40, 1>>,
    <<66928, 66938, 39, 1>>, <<66940, 66954, 39, 1>>, <<66956, 66962, 39, 1>>,
    <<66964, 66965, 39, 1>>, <<68736, 68786, 64, 1>>, <<68944, 68965, 32, 1>>,
    <<71840, 71871, 32, 1>>, <<93760, 93791, 32, 1>>, <<93856, 93880, 27, 1>>,
    <<125184, 125217, 34, 1>> }

\* the lower case of a code point whose mapping does not depend on its
\* neighbours
LowerCaseOf(cp) ==
  IF cp = 304 THEN <<105, 775>>
  ELSE IF \E r \in LowerCaseMappings :
            r[1] <= cp /\ cp <= r[2] /\ (cp - r[1]) % r[4] = 0
       THEN <<cp + (CHOOSE r \in LowerCaseMappings :
                      r[1] <= cp /\ cp <= r[2] /\ (cp - r[1]) % r[4] = 0)[3]>>
       ELSE <<cp>>

\* The code points with the property Case_Ignorable, as ranges <<first, last>>
CaseIgnorableRanges ==
  { <<39, 39>>, <<46, 46>>, <<58, 58>>, <<94, 94>>, <<96, 96>>, <<168, 168>>,
    <<173, 173>>, <<175, 175>>, <<180, 180>>, <<183, 184>>, <<688, 879>>,
    <<884, 885>>, <<890, 890>>, <<900, 901>>, <<903, 903>>, <<1155, 1161>>,
    <<1369, 1369>>, <<1375, 1375>>, <<1425, 1469>>, <<1471, 1471>>,
    <<1473, 1474>>, <<1476, 1477>>, <<1479, 1479>>, <<1524, 1524>>,
    <<1536, 1541>>, <<1552, 1562>>, <<1564, 1564>>, <<1600, 1600>>,
    <<1611, 1631>>, <<1648, 1648>>, <<1750, 1757>>, <<1759, 1768>>,
    <<1770, 1773>>, <<1807, 1807>>, <<1809, 1809>>, <<1840, 1866>>,
    <<1958, 1968>>, <<2027, 2037>>, <<2042, 2042>>, <<2045, 2045>>,
    <<2070, 2093>>, <<2137, 2139>>, <<2184, 2184>>, <<2192, 2193>>,
    <<2199, 2207>>, <<2249, 2306>>, <<2362, 2362>>, <<2364, 2364>>,
    <<2369, 2376>>, <<2381, 2381>>, <<2385, 2391>>, <<2402, 2403>>,
    <<2417, 2417>>, <<2433, 2433>>, <<2492, 2492>>, <<2497, 2500>>,
    <<2509, 2509>>, <<2530, 2531>>, <<2558, 2558>>, <<2561, 2562>>,
    <<2620, 2620>>, <<2625, 2626>>, <<2631, 2632>>, <<2635, 2637>>,
    <<2641, 2641>>, <<2672, 2673>>, <<2677, 2677>>, <<2689, 2690>>,
    <<2748, 2748>>, <<2753, 2757>>, <<2759, 2760>>, <<2765, 2765>>,
    <<2786, 2787>>, <<2810, 2815>>, <<2817, 2817>>, <<2876, 2876>>,
    <<2879, 2879>>, <<2881, 2884>>, <<2893, 2893>>, <<2901, 2902>>,
    <<2914, 2915>>, <<2946, 2946>>, <<3008, 3008>>, <<3021, 3021>>,
    <<3072, 3072>>, <<3076, 3076>>, <<3132, 3132>>, <<3134, 3136>>,
    <<3142, 3144>>, <<3146, 3149>>, <<3157, 3158>>, <<3170, 3171>>,
    <<3201, 3201>>, <<3260, 3260>>, <<3263, 3263>>, <<3270, 3270>>,
    <<3276, 3277>>, <<3298, 3299>>, <<3328, 3329>>, <<3387, 3388>>,
    <<3393, 3396>>, <<3405, 3405>>, <<3426, 3427>>, <<3457, 3457>>,
    <<3530, 3530>>, <<3538, 3540>>, <<3542, 3542>>, <<3633, 3633>>,
    <<3636, 3642>>, <<3654, 3662>>, <<3761, 3761>>, <<3764, 3772>>,
    <<3782, 3782>>, <<3784, 3790>>, <<3864, 3865>>, <<3893, 3893>>,
    <<3895, 3895>>, <<3897, 3897>>, <<3953, 3966>>, <<3968, 3972>>,
    <<3974, 3975>>, <<3981, 3991>>, <<3993, 4028>>, <<4038, 4038>>,
    <<4141, 4144>>, <<4146, 4151>>, <<4153, 4154>>, <<4157, 4158>>,
    <<4184, 4185>>, <<4190, 4192>>, <<4209, 4212>>, <<4226, 4226>>,
    <<4229, 4230>>, <<4237, 4237>>, <<4253, 4253>>, <<4348, 4348>>,
    <<4957, 4959>>, <<5906, 5908>>, <<5938, 5939>>, <<5970, 5971>>,
    <<6002, 6003>>, <<6068, 6069>>, <<6071, 6077>>, <<6086, 6086>>,
    <<6089, 6099>>, <<6103, 6103>>, <<6109, 6109>>, <<6155, 6159>>,
    <<6211, 6211>>, <<6277, 6278>>, <<6313, 6313>>, <<6432, 6434>>,
    <<6439, 6440>>, <<6450, 6450>>, <<6457, 6459>>, <<6679, 6680>>,
    <<6683, 6683>>, <<6742, 6742>>, <<6744, 6750>>, <<6752, 6752>>,
    <<6754, 6754>>, <<6757, 6764>>, <<6771, 6780>>, <<6783, 6783>>,
    <<6823, 6823>>, <<6832, 6877>>, <<6880, 6891>>, <<6912, 6915>>,
    <<6964, 6964>>, <<6966, 6970>>, <<6972, 6972>>, <<6978, 6978>>,
    <<7019, 7027>>, <<7040, 7041>>, <<7074, 7077>>, <<7080, 7081>>,
    <<7083, 7085>>, <<7142, 7142>>, <<7144, 7145>>, <<7149, 7149>>,
    <<7151, 7153>>, <<7212, 7219>>, <<7222, 7223>>, <<7288, 7293>>,
    <<7376, 7378>>, <<7380, 7392>>, <<7394, 7400>>, <<7405, 7405>>,
    <<7412, 7412>>, <<7416, 7417>>, <<7468, 7530>>, <<7544, 7544>>,
    <<7579, 7679>>, <<8125, 8125>>, <<8127, 8129>>, <<8141, 8143>>,
    <<8157, 8159>>, <<8173, 8175>>, <<8189, 8190>>, <<8203, 8207>>,
    <<8216, 8217>>, <<8228, 8228>>, <<8231, 8231>>, <<8234, 8238>>,
    <<8288, 8292>>, <<8294, 8303>>, <<8305, 8305>>, <<8319, 8319>>,
    <<8336, 8348>>, <<8400, 8432>>, <<11388, 11389>>, <<11503, 11505>>,
    <<11631, 11631>>, <<11647, 11647>>, <<11744, 11775>>, <<11823, 11823>>,
    <<12293, 12293>>, <<12330, 12333>>, <<12337, 12341>>, <<12347, 12347>>,
    <<12441, 12446>>, <<12540, 12542>>, <<40981, 40981>>, <<42232, 42237>>,
    <<42508, 42508>>, <<42607, 42610>>, <<42612, 42621>>, <<42623, 42623>>,
    <<42652, 42655>>, <<42736, 42737>>, <<42752, 42785>>, <<42864, 42864>>,
    <<42888, 42890>>, <<42993, 42996>>, <<43000, 43001>>, <<43010, 43010>>,
    <<43014, 43014>>, <<43019, 43019>>, <<43045, 43046>>, <<43052, 43052>>,
    <<43204, 43205>>, <<43232, 43249>>, <<43263, 43263>>, <<43302, 43309>>,
    <<43335, 43345>>, <<43392, 43394>>, <<43443, 43443>>, <<43446, 43449>>,
    <<43452, 43453>>, <<43471, 43471>>, <<43493, 43494>>, <<43561, 43566>>,
    <<43569, 43570>>, <<43573, 43574>>, <<43587, 43587>>, <<43596, 43596>>,
    <<43632, 43632>>, <<43644, 43644>>, <<43696, 43696>>, <<43698, 43700>>,
    <<43703, 43704>>, <<43710, 43711>>, <<43713, 43713>>, <<43741, 43741>>,
    <<43756, 43757>>, <<43763, 43764>>, <<43766, 43766>>, <<43867, 43871>>,
    <<43881, 43883>>, <<44005, 44005>>, <<44008, 44008>>, <<44013, 44013>>,
    <<64286, 64286>>, <<64434, 64450>>, <<65024, 65039>>, <<65043, 65043>>,
    <<65056, 65071>>, <<65106, 65106>>, <<65109, 65109>>, <<65279, 65279>>,
    <<65287, 65287>>, <<65294, 65294>>, <<65306, 65306>>, <<65342, 65342>>,
    <<65344, 65344>>, <<65392, 65392>>, <<65438, 65439>>, <<65507, 65507>>,
    <<65529, 65531>>, <<66045, 66045>>, <<66272, 66272>>, <<66422, 66426>>,
    <<67456, 67461>>, <<67463, 67504>>, <<67506, 67514>>, <<68097, 68099>>,
    <<68101, 68102>>, <<68108, 68111>>, <<68152, 68154>>, <<68159, 68159>>,
    <<68325, 68326>>, <<68900, 68903>>, <<68942, 68942>>, <<68969, 68973>>,
    <<68975, 68975>>, <<69291, 69292>>, <<69317, 69317>>, <<69370, 69375>>,
    <<69446, 69456>>, <<69506, 69509>>, <<69633, 69633>>, <<69688, 69702>>,
    <<69744, 69744>>, <<69747, 69748>>, <<69759, 69761>>, <<69811, 69814>>,
    <<69817, 69818>>, <<69821, 69821>>, <<69826, 69826>>, <<69837, 69837>>,
    <<69888, 69890>>, <<69927, 69931>>, <<69933, 69940>>, <<70003, 70003>>,
    <<70016, 70017>>, <<70070, 70078>>, <<70089, 70092>>, <<70095, 70095>>,
    <<70191, 70193>>, <<70196, 70196>>, <<70198, 70199>>, <<70206, 70206>>,
    <<70209, 70209>>, <<70367, 70367>>, <<70371, 70378>>, <<70400, 70401>>,
    <<70459, 70460>>, <<70464, 70464>>, <<70502, 70508>>, <<70512, 70516>>,
    <<70587, 70592>>, <<70606, 70606>>, <<70608, 70608>>, <<70610, 70610>>,
    <<70625, 70626>>, <<70712, 70719>>, <<70722, 70724>>, <<70726, 70726>>,
    <<70750, 70750>>, <<70835, 70840>>, <<70842, 70842>>, <<70847, 70848>>,
    <<70850, 70851>>, <<71090, 71093>>, <<71100, 71101>>, <<71103, 71104>>,
    <<71132, 71133>>, <<71219, 71226>>, <<71229, 71229>>, <<71231, 71232>>,
    <<71339, 71339>>, <<71341, 71341>>, <<71344, 71349>>, <<71351, 71351>>,
    <<71453, 71453>>, <<71455, 71455>>, <<71458, 71461>>, <<71463, 71467>>,
    <<71727, 71735>>, <<71737, 71738>>, <<71995, 71996>>, <<71998, 71998>>,
    <<72003, 72003>>, <<72148, 72151>>, <<72154, 72155>>, <<72160, 72160>>,
    <<72193, 72202>>, <<72243, 72248>>, <<72251, 72254>>, <<72263, 72263>>,
    <<72273, 72278>>, <<72281, 72283>>, <<72330, 72342>>, <<72344, 72345>>,
    <<72544, 72544>>, <<72546, 72548>>, <<72550, 72550>>, <<72752, 72758>>,
    <<72760, 72765>>, <<72767, 72767>>, <<72850, 72871>>, <<72874, 72880>>,
    <<72882, 72883>>, <<72885, 72886>>, <<73009, 73014>>, <<73018, 73018>>,
    <<73020, 73021>>, <<73023, 73029>>, <<73031, 73031>>, <<73104, 73105>>,
    <<73109, 73109>>, <<73111, 73111>>, <<73177, 73177>>, <<73459, 73460>>,
    <<73472, 73473>>, <<73526, 73530>>, <<73536, 73536>>, <<73538, 73538>>,
    <<73562, 73562>>, <<78896, 78912>>, <<78919, 78933>>, <<90398, 90409>>,
    <<90413, 90415>>, <<92912, 92916>>, <<92976, 92982>>, <<92992, 92995>>,
    <<93504, 93506>>, <<93547, 93548>>, <<94031, 94031>>, <<94095, 94111>>,
    <<94176, 94177>>, <<94179, 94180>>, <<94194, 94195>>, <<110576, 110579>>,
    <<110581, 110587>>, <<110589, 110590>>, <<113821, 113822>>,
    <<113824, 113827>>, <<118528, 118573>>, <<118576, 118598>>,
    <<119143, 119145>>, <<119155, 119170>>, <<119173, 119179>>,
    <<119210, 119213>>, <<119362, 119364>>, <<121344, 121398>>,
    <<121403, 121452>>, <<121461, 121461>>, <<121476, 121476>>,
    <<121499, 121503>>, <<121505, 121519>>, <<122880, 122886>>,
    <<122888, 122904>>, <<122907, 122913>>, <<122915, 122916>>,
    <<122918, 122922>>, <<122928, 122989>>, <<123023, 123023>>,
    <<123184, 123197>>, <<123566, 123566>>, <<123628, 123631>>,
    <<124139, 124143>>, <<124398, 124399>>, <<124643, 124643>>,
    <<124646, 124646>>, <<124654, 124655>>, <<124661, 124661>>,
    <<124671, 124671>>, <<125136, 125142>>, <<125252, 125259>>,
    <<127995, 127999>>, <<917505, 917505>>, <<917536, 917631>>,
    <<917760, 917999>> }

\* The code points with the property Cased that are not Case_Ignorable
CasedRanges ==
  { <<65, 90>>, <<97, 122>>, <<170, 170>>, <<181, 181>>, <<186, 186>>,
    <<192, 214>>, <<216, 246>>, <<248, 442>>, <<444, 447>>, <<452, 659>>,
    <<662, 687>>, <<880, 883>>, <<886, 887>>, <<891, 893>>, <<895, 895>>,
    <<902, 902>>, <<904, 906>>, <<908, 908>>, <<910, 929>>, <<931, 1013>>,
    <<1015, 1153>>, <<1162, 1327>>, <<1329, 1366>>, <<1376, 1416>>,
    <<4256, 4293>>, <<4295, 4295>>, <<4301, 4301>>, <<4304, 4346>>,
    <<4349, 4351>>, <<5024, 5109>>, <<5112, 5117>>, <<7296, 7306>>,
    <<7312, 7354>>, <<7357, 7359>>, <<7424, 7467>>, <<7531, 7543>>,
    <<7545, 7578>>, <<7680, 7957>>, <<7960, 7965>>, <<7968, 8005>>,
    <<8008, 8013>>, <<8016, 8023>>, <<8025, 8025>>, <<8027, 8027>>,
    <<8029, 8029>>, <<8031, 8061>>, <<8064, 8116>>, <<8118, 8124>>,
    <<8126, 8126>>, <<8130, 8132>>, <<8134, 8140>>, <<8144, 8147>>,
    <<8150, 8155>>, <<8160, 8172>>, <<8178, 8180>>, <<8182, 8188>>,
    <<8450, 8450>>, <<8455, 8455>>, <<8458, 8467>>, <<8469, 8469>>,
    <<8473, 8477>>, <<8484, 8484>>, <<8486, 8486>>, <<8488, 8488>>,
    <<8490, 8493>>, <<8495, 8500>>, <<8505, 8505>>, <<8508, 8511>>,
    <<8517, 8521>>, <<8526, 8526>>, <<8544, 8575>>, <<8579, 8580>>,
    <<9398, 9449>>, <<11264, 11387>>, <<11390, 11492>>, <<11499, 11502>>,
    <<11506, 11507>>, <<11520, 11557>>, <<11559, 11559>>, <<11565, 11565>>,
    <<42560, 42605>>, <<42624, 42651>>, <<42786, 42863>>, <<42865, 42887>>,
    <<42891, 42894>>, <<42896, 42972>>, <<42997, 42998>>, <<43002, 43002>>,
    <<43824, 43866>>, <<43872, 43880>>, <<43888, 43967>>, <<64256, 64262>>,
    <<64275, 64279>>, <<65313, 65338>>, <<65345, 65370>>, <<66560, 66639>>,
    <<66736, 66771>>, <<66776, 66811>>, <<66928, 66938>>, <<66940, 66954>>,
    <<66956, 66962>>, <<66964, 66965>>, <<66967, 66977>>, <<66979, 66993>>,
    <<66995, 67001>>, <<67003, 67004>>, <<68736, 68786>>, <<68800, 68850>>,
    <<68944, 68965>>, <<68976, 68997>>, <<71840, 71903>>, <<93760, 93823>>,
    <<93856, 93880>>, <<93883, 93907>>, <<119808, 119892>>,
    <<119894, 119964>>, <<119966, 119967>>, <<119970, 119970>>,
    <<119973, 119974>>, <<119977, 119980>>, <<119982, 119993>>,
    <<119995, 119995>>, <<119997, 120003>>, <<120005, 120069>>,
    <<120071, 120074>>, <<120077, 120084>>, <<120086, 120092>>,
    <<120094, 120121>>, <<120123, 120126>>, <<120128, 120132>>,
    <<120134, 120134>>, <<120138, 120144>>, <<120146, 120485>>,
    <<120488, 120512>>, <<120514, 120538>>, <<120540, 120570>>,
    <<120572, 120596>>, <<120598, 120628>>, <<120630, 120654>>,
    <<120656, 120686>>, <<120688, 120712>>, <<120714, 120744>>,
    <<120746, 120770>>, <<120772, 120779>>, <<122624, 122633>>,
    <<122635, 122654>>, <<122661, 122666>>, <<125184, 125251>>,
    <<127280, 127305>>, <<127312, 127337>>, <<127344, 127369>> }

IsCaseIgnorable(cp) == \E r \in CaseIgnorableRanges : r[1] <= cp /\ cp <= r[2]

IsCased(cp) == \E r \in CasedRanges : r[1] <= cp /\ cp <= r[2]

\* going back from position i, the first code point that is not
\* case-ignorable is a cased letter
RECURSIVE PrecededByCased(_, _)
PrecededByCased(cps, i) ==
  IF i < 1 THEN FALSE
  ELSE IF IsCaseIgnorable(cps[i]) THEN PrecededByCased(cps, i - 1)
  ELSE IsCased(cps[i])

\* going on from position i, the first code point that is not case-ignorable
\* is a cased letter
RECURSIVE FollowedByCased(_, _)
FollowedByCased(cps, i) ==
  IF i > Len(cps) THEN FALSE
  ELSE IF IsCaseIgnorable(cps[i]) THEN FollowedByCased(cps, i + 1)
  ELSE IsCased(cps[i])

\* the lower case of the code point at position i: capital sigma (U+03A3)
\* becomes final sigma (U+03C2) at the end of a word and small sigma (U+03C3)
\* elsewhere
LowerChar(cps, i) ==
  IF cps[i] = 931
  THEN IF PrecededByCased(cps, i - 1) /\ ~FollowedByCased(cps, i + 1)
       THEN <<962>> ELSE <<963>>
  ELSE LowerCaseOf(cps[i])

RECURSIVE LowerFrom(_, _)
LowerFrom(cps, i) ==
  IF i > Len(cps) THEN <<>>
  ELSE LowerChar(cps, i) \o LowerFrom(cps, i + 1)

\* String.prototype.toLowerCase
toLowerCase(s) == CodePointsToString(LowerFrom(StringToCodePoints(s, 1), 1), 1)

\* the code units String.prototype.trim removes: WhiteSpace (tab, vertical
\* tab, form feed, space, no-break space, U+FEFF and the space separators of
\* Unicode) and LineTerminator (LF, CR, U+2028, U+2029)
WhiteSpace ==
  {9, 10, 11, 12, 13, 32, 160, 5760, 8232, 8233, 8239, 8287, 12288, 65279}
    \cup 8192..8202

RECURSIVE trimStart(_)
trimStart(s) ==
  IF s # <<>> /\ s[1] \in WhiteSpace THEN trimStart(Tail(s)) ELSE s

RECURSIVE trimEnd(_)
trimEnd(s) ==
  IF s # <<>> /\ s[Len(s)] \in WhiteSpace
  THEN trimEnd(SubSeq(s, 1, Len(s) - 1)) ELSE s

\* String.prototype.trim
trim(s) == trimEnd(trimStart(s))

\* the keys term of CATEGORY_MAP with queryLower.includes(term)
TermsIncluded(queryLower) ==
  {term \in DOMAIN CATEGORY_MAP : StringIncludes(queryLower, CodeUnits(term))}

\* CATEGORY_MAP[name] for a name CATEGORY_MAP inherits from Object.prototype:
\* the function or object held there, which is truthy and is no category id
InheritedProperty(name) == "Object.prototype." \o name

\* for (const [term, category] of Object.entries(CATEGORY_MAP)) from the
\* i-th entry on: the category of the first term the query includes
RECURSIVE FirstIncluded(_, _)
FirstIncluded(queryLower, i) ==
  IF i > Len(CategoryTerms) THEN "ladies_all"
  ELSE IF CategoryTerms[i] \in TermsIncluded(queryLower)
       THEN CATEGORY_MAP[CategoryTerms[i]]
       ELSE FirstIncluded(queryLower, i + 1)

\* getCategoryFromQuery after queryLower is computed: the own entry of that
\* name, else the property of that name inherited from Object.prototype,
\* else the loop over the entries
CategoryOfLower(queryLower) ==
  IF \E term \in DOMAIN CATEGORY_MAP : CodeUnits(term) = queryLower
  THEN CATEGORY_MAP[CHOOSE term \in DOMAIN CATEGORY_MAP :
                      CodeUnits(term) = queryLower]
  ELSE IF \E name \in ObjectPrototypeNames : CodeUnits(name) = queryLower
  THEN InheritedProperty(CHOOSE name \in ObjectPrototypeNames :
                           CodeUnits(name) = queryLower)
  ELSE FirstIncluded(queryLower, 1)

getCategoryFromQuery(query) ==
  IF query = <<>> THEN "ladies_all"
  ELSE CategoryOfLower(trim(toLowerCase(query)))

\* the queries searchProducts is called with: the empty query, keys of
\* CATEGORY_MAP, queries that contain keys, upper case, white space of every
\* kind around the words, letters outside ASCII whose lower case is inside
\* it or longer than one code unit, a final sigma, a letter above U+FFFF, no
\* key at all, and a name every object inherits
ServiceQueries ==
  { <<>>,
    CodeUnits("dress"),
    CodeUnits("summer tops"),
    CodeUnits("gown"),
    CodeUnits("tshirts"),
    CodeUnits("Denim Jacket "),
    CodeUnits("constructor"),
    <<12>> \o CodeUnits("sweatshirt"),
    <<160, 8232>> \o CodeUnits("Hoodie") \o <<65279, 11>>,
    CodeUnits("JAC") \o <<8490>> \o CodeUnits("ET"),
    CodeUnits("SK") \o <<304>> \o CodeUnits("RT"),
    <<201>> \o CodeUnits("T") \o <<201, 32>> \o CodeUnits("COAT") \o <<931>>,
    <<55297, 56320>> \o CodeUnits(" Swimwear") }

productsPerPage == 30

\* Math.ceil(maxProducts / productsPerPage) of the running call
pagesToFetch == MathCeilDiv(searchCall.maxProducts, productsPerPage)

\* p.swatches?.[0]?.articleId || p.id
articleIdOf(p) == IF p.articleId # 0 THEN p.articleId ELSE p.id

\* filterByQuery(productList, query) for the query of the running call
filterByQuery(productList) == SelectSeq(productList, LAMBDA p : p.nameHasQuery)

\* Object.keys(listDataMap): the truthy article ids of the list, once each,
\* in ascending order (integer keys)
RECURSIVE Ascending(_)
Ascending(S) ==
  IF S = {} THEN <<>>
  ELSE LET least == CHOOSE x \in S : \A y \in S : x <= y
       IN  <<least>> \o Ascending(S \ {least})

productCodes(productList) ==
  Ascending({articleIdOf(productList[i]) : i \in DOMAIN productList} \ {0})

\* items and pages the list endpoint answers with
ItemA == [articleId |-> 1, id |-> 9, nameHasQuery |-> TRUE]

ItemB == [articleId |-> 0, id |-> 2, nameHasQuery |-> FALSE]

ItemC == [articleId |-> 3, id |-> 0, nameHasQuery |-> TRUE]

ItemNoId == [articleId |-> 0, id |-> 0, nameHasQuery |-> TRUE]

ItemA2 == [articleId |-> 1, id |-> 3, nameHasQuery |-> FALSE]

\* a page of n items repeating the items of a short list
PageOf(n, items) == [i \in 1..n |-> items[((i - 1) % Len(items)) + 1]]

ListResponses ==
  { <<>>,
    <<ItemA, ItemB, ItemC>>,
    <<ItemNoId, ItemA2>>,
    PageOf(30, <<ItemA, ItemNoId, ItemB>>),
    PageOf(45, <<ItemA2, ItemC>>) }

\* values of maxProducts: below, at and above a page of 30, none and less
\* than none
MaxProductsValues == {-1, 0, 2, 50, 70}

\* searchProducts(query, maxProducts) up to its loop
StartSearch ==
  /\ searchPc = "idle"
  /\ \E q \in ServiceQueries, mp \in MaxProductsValues :
       searchCall' = [query |-> q, maxProducts |-> mp,
                      categoryId |-> getCategoryFromQuery(q)]
  /\ searchPc' = "loop"
  /\ page' = 1
  /\ UNCHANGED <<fallback, listed, listedAll, listLog, details, settled, returned>>
  /\ UNCHANGED outsideService

\* page <= pagesToFetch: the list request of the page is sent
SendListRequest ==
  /\ searchPc = "loop"
  /\ page <= pagesToFetch
  /\ listLog' = Append(listLog,
                  [by         |-> IF fallback THEN "fetchFromLadiesAll" ELSE "searchProducts",
                   categoryId |-> IF fallback THEN "ladies_all" ELSE searchCall.categoryId,
                   page       |-> page,
                   status     |-> "sent",
                   length     |-> 0])
  /\ searchPc' = "listAwait"
  /\ UNCHANGED <<searchCall, fallback, page, listed, listedAll, details, settled, returned>>
  /\ UNCHANGED outsideService

\* page > pagesToFetch: the loop ends
LoopEnds ==
  /\ searchPc = "loop"
  /\ page > pagesToFetch
  /\ searchPc' = "afterLoop"
  /\ UNCHANGED <<searchCall, fallback, page, listed, listedAll, listLog, details,
                 settled, returned>>
  /\ UNCHANGED outsideService

\* the list request is answered: break on an empty page, concat, break when
\* enough products are collected, else the next page
ListResponds ==
  /\ searchPc = "listAwait"
  /\ \E productList \in ListResponses :
       LET collected == (IF fallback THEN listedAll ELSE listed) \o productList
       IN  /\ listLog' = [listLog EXCEPT ![Len(listLog)].status = "ok",
                                         ![Len(listLog)].length = Len(productList)]
           /\ IF Len(productList) = 0
              THEN /\ searchPc' = "afterLoop"
                   /\ UNCHANGED <<page, listed, listedAll>>
              ELSE /\ listed' = IF fallback THEN listed ELSE collected
                   /\ listedAll' = IF fallback THEN collected ELSE listedAll
                   /\ IF Len(collected) >= searchCall.maxProducts
                      THEN searchPc' = "afterLoop" /\ page' = page
                      ELSE searchPc' = "loop" /\ page' = page + 1
  /\ UNCHANGED <<searchCall, fallback, details, settled, returned>>
  /\ UNCHANGED outsideService

\* the list request fails: axios throws, fetchFromLadiesAll and
\* searchProducts rethrow
ListFails ==
  /\ searchPc = "listAwait"
  /\ listLog' = [listLog EXCEPT ![Len(listLog)].status = "failed"]
  /\ settled' = "rejected"
  /\ searchPc' = "done"
  /\ UNCHANGED <<searchCall, fallback, page, listed, listedAll, details, returned>>
  /\ UNCHANGED outsideService

\* if (allProducts.length === 0) return await fetchFromLadiesAll(...)
CallFetchFromLadiesAll ==
  /\ searchPc = "afterLoop"
  /\ ~fallback
  /\ Len(listed) = 0
  /\ fallback' = TRUE
  /\ page' = 1
  /\ searchPc' = "loop"
  /\ UNCHANGED <<searchCall, listed, listedAll, listLog, details, settled, returned>>
  /\ UNCHANGED outsideService

\* variant: every collected product is processed
ProcessListed_NoLimit ==
  /\ searchPc = "afterLoop"
  /\ ~fallback
  /\ Len(listed) # 0
  /\ LET codes == productCodes(listed)
     IN  details' = [code \in {codes[i] : i \in DOMAIN codes} |-> "pending"]
  /\ searchPc' = "details"
  /\ UNCHANGED <<searchCall, fallback, page, listed, listedAll, listLog, settled, returned>>
  /\ UNCHANGED outsideService

\* return await processProducts(allProducts.slice(0, maxProducts)), up to
\* the sending of the detail requests
ProcessListed ==
  /\ searchPc = "afterLoop"
  /\ ~fallback
  /\ Len(listed) # 0
  /\ LET codes == productCodes(slice(listed, 0, searchCall.maxProducts))
     IN  details' = [code \in {codes[i] : i \in DOMAIN codes} |-> "pending"]
  /\ searchPc' = "details"
  /\ UNCHANGED <<searchCall, fallback, page, listed, listedAll, listLog, settled, returned>>
  /\ UNCHANGED outsideService

\* fetchFromLadiesAll after its loop: filter by the query if there is one,
\* slice, processProducts up to the sending of the detail requests
ProcessListedAll ==
  /\ searchPc = "afterLoop"
  /\ fallback
  /\ LET filtered == IF searchCall.query # <<>> THEN filterByQuery(listedAll) ELSE listedAll
         codes    == productCodes(slice(filtered, 0, searchCall.maxProducts))
     IN  details' = [code \in {codes[i] : i \in DOMAIN codes} |-> "pending"]
  /\ searchPc' = "details"
  /\ UNCHANGED <<searchCall, fallback, page, listed, listedAll, listLog, settled, returned>>
  /\ UNCHANGED outsideService

\* fetchProductDetail returns the product
DetailSucceeds ==
  /\ searchPc = "details"
  /\ \E code \in DOMAIN details :
       /\ details[code] = "pending"
       /\ details' = [details EXCEPT ![code] = "ok"]
  /\ UNCHANGED <<searchCall, searchPc, fallback, page, listed, listedAll, listLog,
                 settled, returned>>
  /\ UNCHANGED outsideService

\* variant: fetchProductDetail has no try/catch, Promise.all rejects
DetailFails_Rejects ==
  /\ searchPc = "details"
  /\ \E code \in DOMAIN details :
       /\ details[code] = "pending"
       /\ details' = [details EXCEPT ![code] = "null"]
  /\ settled' = "rejected"
  /\ searchPc' = "done"
  /\ UNCHANGED <<searchCall, fallback, page, listed, listedAll, listLog, returned>>
  /\ UNCHANGED outsideService

\* the detail request fails: fetchProductDetail catches and returns null
DetailFails ==
  /\ searchPc = "details"
  /\ \E code \in DOMAIN details :
       /\ details[code] = "pending"
       /\ details' = [details EXCEPT ![code] = "null"]
  /\ UNCHANGED <<searchCall, searchPc, fallback, page, listed, listedAll, listLog,
                 settled, returned>>
  /\ UNCHANGED outsideService

\* Promise.all is fulfilled: products.filter(Boolean) is returned
ProcessResolves ==
  /\ searchPc = "details"
  /\ \A code \in DOMAIN details : details[code] # "pending"
  /\ returned' = SelectSeq(Ascending(DOMAIN details), LAMBDA code : details[code] = "ok")
  /\ settled' = "resolved"
  /\ searchPc' = "done"
  /\ UNCHANGED <<searchCall, fallback, page, listed, listedAll, listLog, details>>
  /\ UNCHANGED outsideService

InitService ==
  /\ ServiceIdle
  /\ ComparatorIdle
  /\ ParseIdle
  /\ HomeIdle
  /\ ImproveIdle

NextService ==
  \/ StartSearch
  \/ SendListRequest
  \/ LoopEnds
  \/ ListResponds
  \/ ListFails
  \/ CallFetchFromLadiesAll
  \/ ProcessListed
  \/ ProcessListedAll
  \/ DetailSucceeds
  \/ DetailFails
  \/ ProcessResolves

SpecService == InitService /\ [][NextService]_vars

---------------------------------------------------------------------------
(* generateImprovedCompositions (pages/ProductDetailPage.js).  An object   *)
(* with string keys is the sequence of its <<key, value>> pairs in         *)
(* insertion order, as Object.keys lists them; percentages are integers.   *)

\* o[k], 0 standing for undefined
ObjGet(o, k) ==
  IF ObjHas(o, k) THEN o[CHOOSE i \in DOMAIN o : o[i][1] = k][2] ELSE 0

\* delete o[k]
ObjDelete(o, k) == SelectSeq(o, LAMBDA e : e[1] # k)

RECURSIVE ObjSum(_)
ObjSum(o) == IF o = <<>> THEN 0 ELSE Head(o)[2] + ObjSum(Tail(o))

alternatives ==
  ( "Cotton"    :> <<"Organic Cotton", "Hemp", "Linen">> ) @@
  ( "Polyester" :> <<"Recycled Polyester", "Tencel", "Hemp">> ) @@
  ( "Viscose"   :> <<"Tencel", "Modal", "Organic Cotton">> ) @@
  ( "Acrylic"   :> <<"Organic Cotton", "Wool", "Tencel">> ) @@
  ( "Nylon"     :> <<"Recycled Nylon", "Tencel">> ) @@
  ( "Polyamide" :> <<"Recycled Nylon", "Tencel">> ) @@
  ( "Elastane"  :> <<"Elastane">> ) @@
  ( "Wool"      :> <<"Organic Wool", "Alpaca">> ) @@
  ( "Linen"     :> <<"Organic Linen", "Hemp">> )

\* the forEach over Object.keys(rec1) of recommendation 1
RECURSIVE ReplaceSynthetics(_, _)
ReplaceSynthetics(rec1, keys) ==
  IF keys = <<>> THEN rec1
  ELSE LET material == Head(keys)
           next ==
             IF material \in {"Polyester", "Viscose", "Acrylic", "Nylon", "Polyamide"}
             THEN ObjDelete(ObjSet(rec1, alternatives[material][1],
                                   ObjGet(rec1, material)), material)
             ELSE IF material = "Cotton" /\ ObjGet(rec1, material) > 50
                  THEN ObjDelete(ObjSet(rec1, "Organic Cotton",
                                        ObjGet(rec1, material)), material)
                  ELSE rec1
       IN  ReplaceSynthetics(next, Tail(keys))

\* recommendation 2
MaximumNatural(comp) ==
  LET sustainableVersion ==
        IF comp # <<>> /\ ObjKeys(comp)[1] \in DOMAIN alternatives
        THEN alternatives[ObjKeys(comp)[1]][1]
        ELSE "Organic Cotton"
      rec2 == ObjSet(<<>>, sustainableVersion, 95)
  IN  IF ObjGet(comp, "Elastane") # 0
      THEN ObjSet(rec2, "Elastane", 5)
      ELSE ObjSet(rec2, sustainableVersion, 100)

\* recommendation 3
HempBlend(comp) ==
  LET synthetic == SelectSeq(comp,
                     LAMBDA e : e[1] \in {"Polyester", "Nylon", "Acrylic", "Polyamide"})
      totalSynthetic == ObjSum(synthetic)
  IN  IF totalSynthetic > 0
      THEN LET rec3 == ObjSet(ObjSet(<<>>, "Hemp", 70), "Organic Cotton", 25)
           IN  IF ObjGet(comp, "Elastane") # 0
               THEN ObjSet(rec3, "Elastane", 5)
               ELSE ObjSet(rec3, "Organic Cotton", 30)
      ELSE ObjSet(ObjSet(<<>>, "Hemp", 60), "Linen", 40)

generateImprovedCompositions(comp) ==
  << [name |-> "Sustainable Blend",
      composition |-> ReplaceSynthetics(comp, ObjKeys(comp)),
      carbonSaving |-> 45, waterSaving |-> 38],
     [name |-> "Maximum Natural",
      composition |-> MaximumNatural(comp),
      carbonSaving |-> 52, waterSaving |-> 41],
     [name |-> "Hemp Blend",
      composition |-> HempBlend(comp),
      carbonSaving |-> 67, waterSaving |-> 72] >>

FiberNames ==
  {"Cotton", "Organic Cotton", "Polyester", "Recycled Polyester", "Nylon",
   "Polyamide", "Elastane", "Wool"}

FiberPercentages == {5, 10, 40, 50, 60, 95, 100}

\* a composition has at most this many fibers
MaxFibers == 2

\* the compositions with distinct fibers whose percentages sum to 100
FiberCompositions ==
  { o \in UNION {[1..n -> FiberNames \X FiberPercentages] : n \in 1..MaxFibers} :
      /\ \A i, j \in DOMAIN o : i # j => o[i][1] # o[j][1]
      /\ ObjSum(o) = 100 }

\* the effect of ProductDetailPage: setRecommendations(generate...(...))
CallGenerate ==
  /\ ~generated
  /\ recommendations' = generateImprovedCompositions(currentComp)
  /\ generated' = TRUE
  /\ UNCHANGED currentComp
  /\ UNCHANGED outsideImprove

InitImprove ==
  /\ currentComp \in FiberCompositions
  /\ recommendations = <<>>
  /\ generated = FALSE
  /\ ComparatorIdle
  /\ ParseIdle
  /\ HomeIdle
  /\ ServiceIdle

NextImprove == CallGenerate

SpecImprove == InitImprove /\ [][NextImprove]_vars

---------------------------------------------------------------------------
(* Properties *)

\* the multiplier table of the specification, section 4.3
ClaimMultiplier(cat) ==
  CASE cat = "tshirt"   -> Num(1)
    [] cat = "sweater"  -> Frac(115, 100)
    [] cat = "jacket"   -> Frac(115, 100)
    [] cat = "dress"    -> Frac(9, 10)
    [] cat = "trousers" -> Frac(95, 100)
    [] cat = "jeans"    -> Frac(11, 10)
    [] OTHER            -> Num(1)

ZeroImpact == [co2 |-> Num(0), water |-> Num(0)]

\* the keys of the material reference table and of the category table, as the
\* specification lists them
TableMaterials ==
  {"cotton", "recycled_cotton", "polyester", "recycled_polyester", "wool",
   "linen", "elastane", "nylon"}

TableCategories ==
  {"tshirt", "sweater", "jacket", "dress", "trousers", "jeans", "other"}

\* the own keys of an object
KeySet(obj) == {obj[i][1] : i \in DOMAIN obj}

\* two objects hold the same entries, whatever the insertion order
SameEntries(a, b) == {a[i] : i \in DOMAIN a} = {b[i] : i \in DOMAIN b}

\* the fraction of a material in a composition, 0 when it has no entry
FractionOf(comp, m) == IF ObjHas(comp, m) THEN Prop(comp, m) ELSE Num(0)

\* no material of the reference table has a fraction > 0
ZeroWeight(comp) ==
  \A i \in DOMAIN comp :
    comp[i][1] \in TableMaterials => ~Gt(comp[i][2], Num(0))

\* scale(c, k): every fraction multiplied by k
scale(comp, k) == [i \in DOMAIN comp |-> <<comp[i][1], Mul(comp[i][2], k)>>]

\* what counts as floating-point rounding: a difference of at most 10^-9
RoundingTolerance == Frac(1, 1000000000)

\* |x|
AbsOf(x) == IF Sign(x) < 0 THEN Neg(x) ELSE x

\* x and y are numbers and equal up to rounding
Near(x, y) == Le(AbsOf(Sub(x, y)), RoundingTolerance)

\* x and y are numbers and equal to one part in 10^9
RelativelyNear(x, y) ==
  Le(AbsOf(Sub(x, y)), Mul(RoundingTolerance, AbsOf(y)))

\* C1 as stated: for every composition (any mapping of material names to
\* fractions) and every category the predicted lifespan lies between 15 and
\* 63 months times the category multiplier.
C1_AsStated ==
  hook >= 1 =>
    /\ Ge(currentLifespan, Mul(Num(15), ClaimMultiplier(category)))
    /\ Le(currentLifespan, Mul(Num(63), ClaimMultiplier(category)))

\* C2 as stated: a composition in which no table material has a fraction > 0
\* (empty, all fractions zero, or all names unknown) yields exactly 30 months
\* times the category multiplier, and zero impact for every garment mass.
C2_AsStated ==
  ZeroWeight(currentComposition) =>
    /\ hook >= 1 => currentLifespan = Mul(Num(30), ClaimMultiplier(category))
    /\ hook >= 2 => currentImpact = ZeroImpact
    /\ hook = 2 => \A mass \in InputMasses :
                      calculateImpact(currentComposition, mass) = ZeroImpact

\* the scalars of InputScalars that keep every fraction of the composition <= 1
ScalarsFor(comp) ==
  {k \in InputScalars : \A i \in DOMAIN comp : Le(Mul(comp[i][2], k), Num(1))}

\* C3 as stated: the lifespan does not change when every fraction is
\* multiplied by a positive scalar that keeps the fractions <= 1, a difference
\* of at most 10^-9 months counting as rounding and not as a change.
C3_AsStated ==
  hook = 1 =>
    \A k \in ScalarsFor(currentComposition) :
      Near(predictLifespan(scale(currentComposition, k), category), currentLifespan)

IsC4Input ==
  /\ hook >= 1
  /\ currentComposition = << <<"cotton", Frac(1, 2)>>, <<"polyester", Frac(1, 2)>> >>
  /\ category = "tshirt"

\* C4 as stated: {cotton: 0.5, polyester: 0.5} as a t-shirt lasts 30.0 months,
\* the material score being the 0.65 baseline (up to rounding).
C4_AsStated ==
  IsC4Input =>
    /\ Near(currentLifespan, Num(30))
    /\ Near(calculateMaterialScore(currentComposition), Frac(65, 100))

\* C4 amended: {cotton: 0.5, polyester: 0.5} as a t-shirt lasts 37.5 months
\* up to floating-point rounding, the material score being 0.775 up to
\* rounding.
C4_Lifespan ==
  IsC4Input =>
    /\ Near(currentLifespan, Frac(375, 10))
    /\ Near(calculateMaterialScore(currentComposition), Frac(775, 1000))

\* the lifespan the code computes is the double just above 37.5
C4_Witness ==
  /\ IsC4Input
  /\ Near(currentLifespan, Frac(375, 10))
  /\ Gt(currentLifespan, Frac(375, 10))

\* the positions of the entries of the output that carry a label
EntriesOf(label) == {i \in 1..Len(suggestions) : suggestions[i].label = label}

LabelA == "Switch to Recycled Polyester"
LabelB == "Use 80% Recycled Cotton"
LabelC == "Replace Polyester with Cotton"
LabelD == "Add Linen Blend"

IsC5Input ==
  /\ hook = AllHooks
  /\ currentComposition = << <<"polyester", Num(1)>> >>
  /\ category = "tshirt"

\* C5 as stated: for {polyester: 1.0} as a t-shirt the output contains the
\* recycled-polyester swap and its composition equals {recycled_polyester: 1.0}.
C5_AsStated ==
  IsC5Input =>
    \E i \in EntriesOf(LabelA) :
      SameEntries(suggestions[i].composition, << <<"recycled_polyester", Num(1)>> >>)

\* C5 amended: for {polyester: 1.0} as a t-shirt the output contains the
\* recycled-polyester swap and its composition is
\* {polyester: 0, recycled_polyester: 1.0}: the polyester entry stays, at 0.
C5_RecycledPolyesterSwap ==
  IsC5Input =>
    \E i \in EntriesOf(LabelA) :
      SameEntries(suggestions[i].composition,
                  << <<"polyester", Num(0)>>, <<"recycled_polyester", Num(1)>> >>)

C5_Witness == IsC5Input /\ EntriesOf(LabelA) # {}

\* C6 as stated: whenever polyester > 0.3 and cotton < 0.5, a missing cotton
\* entry counting as 0, the output contains the polyester-to-cotton candidate,
\* which moves min(0.3, polyester) from polyester to cotton.
C6_AsStated ==
  LET p == FractionOf(currentComposition, "polyester")
      c == FractionOf(currentComposition, "cotton")
      r == IF Lt(p, Frac(3, 10)) THEN p ELSE Frac(3, 10)
  IN  (hook = AllHooks /\ Gt(p, Frac(3, 10)) /\ Lt(c, Frac(5, 10))) =>
        \E i \in EntriesOf(LabelC) :
          SameEntries(suggestions[i].composition,
                      Spread(currentComposition,
                             << <<"polyester", Sub(p, r)>>, <<"cotton", Add(c, r)>> >>))

IsC7Input ==
  /\ hook = AllHooks
  /\ currentComposition = << <<"cotton", Num(1)>> >>

\* C7: for {cotton: 1.0} and any category the output contains the
\* recycled-cotton blend with composition {recycled_cotton: 0.8, cotton: 0.2}.
C7_RecycledCottonBlend ==
  IsC7Input =>
    \E i \in EntriesOf(LabelB) :
      SameEntries(suggestions[i].composition,
                  << <<"recycled_cotton", Frac(8, 10)>>, <<"cotton", Frac(2, 10)>> >>)

C7_Witness == IsC7Input /\ category = "jeans" /\ EntriesOf(LabelB) # {}

\* C8: {wool: 1.0} as a sweater yields the empty sequence, and so does every
\* composition with no polyester above 0.1 and no cotton above 0.5, for any
\* category.
C8_NoRecommendation ==
  /\ ( /\ hook = AllHooks
       /\ currentComposition = << <<"wool", Num(1)>> >>
       /\ category = "sweater" )
       => suggestions = <<>>
  /\ ( /\ hook = AllHooks
       /\ ~Gt(FractionOf(currentComposition, "polyester"), Frac(1, 10))
       /\ ~Gt(FractionOf(currentComposition, "cotton"), Frac(5, 10)) )
       => suggestions = <<>>

C8_Witness ==
  /\ hook = AllHooks
  /\ currentComposition = << <<"wool", Num(1)>> >>
  /\ category = "sweater"
  /\ suggestions = <<>>

\* the preconditions of the four heuristics as the specification states them
ClaimApplies(label) ==
  LET p == FractionOf(currentComposition, "polyester")
      c == FractionOf(currentComposition, "cotton")
  IN  CASE label = LabelA -> Gt(p, Frac(1, 10))
        [] label = LabelB -> Gt(c, Frac(5, 10))
        [] label = LabelC -> Gt(p, Frac(3, 10)) /\ Lt(c, Frac(5, 10))
        [] label = LabelD -> category \in {"tshirt", "dress"} /\ Gt(p, Frac(2, 10))

\* C9: the output has 0 to 4 entries, every entry comes from one of the four
\* heuristics, each heuristic contributes at most one entry, and none when its
\* precondition does not hold.
C9_AtMostOnePerHeuristic ==
  hook = AllHooks =>
    /\ Len(suggestions) <= 4
    /\ \A i \in 1..Len(suggestions) :
         suggestions[i].label \in {LabelA, LabelB, LabelC, LabelD}
    /\ \A label \in {LabelA, LabelB, LabelC, LabelD} :
         /\ Cardinality(EntriesOf(label)) <= 1
         /\ ~ClaimApplies(label) => EntriesOf(label) = {}

\* three heuristics fire and the fourth, whose precondition fails, is absent
C9_Witness ==
  /\ hook = AllHooks
  /\ Len(suggestions) = 3
  /\ ~ClaimApplies(LabelC)
  /\ EntriesOf(LabelC) = {}

\* deltaLifespan - 50 * deltaCO2 of an output entry
CompositeScore(e) == Sub(e.deltaLifespan, Mul(Num(50), e.deltaCO2))

EvaluationOrder(label) ==
  CASE label = LabelA -> 1 [] label = LabelB -> 2
    [] label = LabelC -> 3 [] label = LabelD -> 4

\* C10: adjacent entries of the output are in descending order of the
\* composite score, and entries of equal score are in evaluation order a..d.
C10_RankedDescending ==
  hook = AllHooks =>
    \A i \in 1..(Len(suggestions) - 1) :
      /\ Ge(CompositeScore(suggestions[i]), CompositeScore(suggestions[i + 1]))
      /\ CompositeScore(suggestions[i]) = CompositeScore(suggestions[i + 1])
           => EvaluationOrder(suggestions[i].label)
                < EvaluationOrder(suggestions[i + 1].label)

\* an output of three entries, two of them with equal score
C10_Witness ==
  /\ hook = AllHooks
  /\ Len(suggestions) = 3
  /\ \E i \in 1..(Len(suggestions) - 1) :
       CompositeScore(suggestions[i]) = CompositeScore(suggestions[i + 1])

\* an output the sort reordered: d, pushed last, ranks first of three because
\* the entries were summed in another order
C10_Reordered ==
  /\ hook = AllHooks
  /\ Len(suggestions) = 3
  /\ suggestions[1].label = LabelD
  /\ Gt(CompositeScore(suggestions[1]), CompositeScore(suggestions[2]))

\* C11 as stated: calculateImpact is linear in the raw fractions: for every
\* scalar k > 0 and every mass, the co2 and water of the composition scaled
\* by k equal k times those of the composition itself.
\* calculateImpact takes no category: one category covers every composition.
C11_AsStated ==
  (hook = 2 /\ category = "tshirt") =>
    \A mass \in InputMasses :
      LET impact == calculateImpact(currentComposition, mass)
      IN  \A k \in InputScalars :
            LET scaled == calculateImpact(scale(currentComposition, k), mass)
            IN  /\ scaled.co2 = Mul(k, impact.co2)
                /\ scaled.water = Mul(k, impact.water)

\* C11 amended: calculateImpact is linear in the raw fractions up to
\* floating-point rounding: for every scalar k > 0 and every mass, the co2
\* and water of the composition scaled by k differ from k times those of the
\* composition by at most one part in 10^9 of their size; nothing is
\* normalized.
C11_ImpactLinear ==
  (hook = 2 /\ category = "tshirt") =>
    \A mass \in InputMasses :
      LET impact == calculateImpact(currentComposition, mass)
      IN  \A k \in InputScalars :
            LET scaled == calculateImpact(scale(currentComposition, k), mass)
            IN  /\ RelativelyNear(scaled.co2, Mul(k, impact.co2))
                /\ RelativelyNear(scaled.water, Mul(k, impact.water))

\* a composition summing to 1.3, tripled to a sum of 3.9, at a mass of
\* 0.25 * 2^20 kg: the water is three times as much to one part in 10^9, not
\* the same double, and more than 10^-9 away from it
C11_Witness ==
  /\ hook = 2
  /\ category = "tshirt"
  /\ currentComposition = << <<"cotton", Frac(3, 10)>>, <<"polyester", Num(1)>> >>
  /\ LET impact == calculateImpact(currentComposition, LargeMass)
         scaled == calculateImpact(scale(currentComposition, Num(3)), LargeMass)
     IN  /\ RelativelyNear(scaled.water, Mul(Num(3), impact.water))
         /\ ~Near(scaled.water, Mul(Num(3), impact.water))
         /\ Gt(scaled.water, Num(600000000))
  /\ calculateImpact(scale(currentComposition, Num(3)), DefaultMass).water
       # Mul(Num(3), currentImpact.water)

\* C12: for every composition and mass m > 0 the co2 of a garment of mass
\* 2 * m is twice the co2 of a garment of mass m.
C12_MassScaling ==
  (hook = 2 /\ category = "other") =>
    \A mass \in InputMasses :
      calculateImpact(currentComposition, Mul(Num(2), mass)).co2
        = Mul(Num(2), calculateImpact(currentComposition, mass).co2)

\* a blend at the default mass 0.25 kg and at twice that mass
C12_Witness ==
  /\ hook = 2
  /\ category = "other"
  /\ currentComposition = << <<"cotton", Frac(1, 2)>>, <<"polyester", Frac(1, 2)>> >>
  /\ currentImpact.co2 = Frac(25, 8)
  /\ calculateImpact(currentComposition, Frac(1, 2)).co2 = Frac(25, 4)

\* a finite number >= 0
FiniteNonNegative(x) == IsNumber(x) /\ Ge(x, Num(0))

\* C13: for any composition over any material-name strings and any category
\* string, predictLifespan and calculateImpact yield finite, non-negative
\* numbers.
C13_AsStated ==
  /\ hook >= 1 => FiniteNonNegative(currentLifespan)
  /\ hook >= 2 => /\ FiniteNonNegative(currentImpact.co2)
                  /\ FiniteNonNegative(currentImpact.water)

\* C14: adding an entry whose name is not a key of the material reference
\* table, with any fraction, changes neither the lifespan nor, for any mass,
\* the impact.
C14_AsStated ==
  hook = 2 =>
    \A name \in (AnyNames \ TableMaterials) \ KeySet(currentComposition) :
      \A f \in AnyFractions :
        LET bigger == Spread(currentComposition, <<<<name, f>>>>)
        IN  /\ predictLifespan(bigger, category) = currentLifespan
            /\ \A mass \in InputMasses :
                 calculateImpact(bigger, mass)
                   = calculateImpact(currentComposition, mass)

\* C15: for every category string that is not a key of the category table the
\* lifespan equals the lifespan for the category 'other'.
C15_AsStated ==
  (hook >= 1 /\ category \notin TableCategories) =>
    currentLifespan = predictLifespan(currentComposition, "other")

C18_AsStated ==
  (hook >= 2 /\ category = "tshirt") =>
    /\ currentComposition = << <<"polyester", Num(1)>> >>
         => Near(currentLifespan, Num(45)) /\ Near(currentImpact.co2, Frac(5, 2))
    /\ currentComposition = << <<"cotton", Num(1)>> >>
         => Near(currentLifespan, Num(48)) /\ Near(currentImpact.co2, Frac(15, 4))

\* what the scoring functions give for the two garments of C18: 21 months and
\* 2.5 kg, 54 months and 3.75 kg
C18_CodeValues ==
  (hook >= 2 /\ category = "tshirt") =>
    /\ currentComposition = << <<"polyester", Num(1)>> >>
         => currentLifespan = Num(21) /\ currentImpact.co2 = Frac(5, 2)
    /\ currentComposition = << <<"cotton", Num(1)>> >>
         => currentLifespan = Num(54) /\ currentImpact.co2 = Frac(15, 4)

\* the sum of the fractions of the first n entries of a composition
RECURSIVE TotalOfFirst(_, _)
TotalOfFirst(comp, n) ==
  IF n = 0 THEN Num(0) ELSE Add(TotalOfFirst(comp, n - 1), comp[n][2])

\* the sum of all fractions of a composition
TotalOf(comp) == TotalOfFirst(comp, Len(comp))

\* C19: every candidate composition sums to the same total as the input
\* composition (up to rounding), and the recycled-polyester swap leaves
\* polyester at 0 with the whole polyester fraction added to
\* recycled_polyester, also when the input already has a recycled_polyester
\* or recycled_cotton entry.
C19_AsStated ==
  hook = AllHooks =>
    \A i \in 1..Len(suggestions) :
      LET comp == suggestions[i].composition
      IN  /\ Near(TotalOf(comp), TotalOf(currentComposition))
          /\ suggestions[i].label = LabelA =>
               /\ Prop(comp, "polyester") = Num(0)
               /\ Near(Prop(comp, "recycled_polyester"),
                       Add(FractionOf(currentComposition, "recycled_polyester"),
                           Prop(currentComposition, "polyester")))

\* the two materials a heuristic names
NamedBy(label) ==
  CASE label = LabelA -> {"polyester", "recycled_polyester"}
    [] label = LabelB -> {"cotton", "recycled_cotton"}
    [] label = LabelC -> {"polyester", "cotton"}
    [] label = LabelD -> {"polyester", "linen"}

\* C20: in every candidate composition each material other than the two the
\* heuristic names has the fraction it has in the input, unknown materials
\* included, and no other entry is added or removed.
C20_OthersCarriedOver ==
  hook = AllHooks =>
    \A i \in 1..Len(suggestions) :
      LET comp  == suggestions[i].composition
          named == NamedBy(suggestions[i].label)
      IN  /\ KeySet(comp) \ named = KeySet(currentComposition) \ named
          /\ \A m \in KeySet(currentComposition) \ named :
               Prop(comp, m) = Prop(currentComposition, m)

\* the linen blend of a dress that also holds an unknown material
C20_Witness ==
  /\ hook = AllHooks
  /\ currentComposition = << <<"polyester", Num(1)>>, <<"hemp", Frac(1, 2)>> >>
  /\ category = "dress"
  /\ \E i \in EntriesOf(LabelD) :
       SameEntries(suggestions[i].composition,
                   << <<"polyester", Frac(7, 10)>>, <<"hemp", Frac(1, 2)>>,
                      <<"linen", Frac(3, 10)>> >>)

\* C21: whenever parseCompositionText returns a non-empty composition, its
\* percentages sum to exactly 100.
C21_AsStated ==
  (parseDone /\ DOMAIN parsed # {}) => SumInt(parsed, DOMAIN parsed) = 100

\* C22: the recycled-cotton blend and the polyester-to-cotton substitution
\* are never both applicable: for every composition and category the output
\* has at most 3 entries and never holds both candidates.
C22_BlendAndSubstitutionExclusive ==
  /\ ~(RecycledCottonApplies(currentComposition)
        /\ PolyesterToCottonApplies(currentComposition))
  /\ hook = AllHooks =>
       /\ Len(suggestions) <= 3
       /\ EntriesOf(LabelB) = {} \/ EntriesOf(LabelC) = {}

\* three candidates, the blend among them, for a composition whose polyester
\* alone would allow the substitution
C22_Witness ==
  /\ hook = AllHooks
  /\ Gt(FractionOf(currentComposition, "polyester"), Frac(3, 10))
  /\ Len(suggestions) = 3
  /\ EntriesOf(LabelB) # {}
  /\ EntriesOf(LabelC) = {}

\* C23: in every state reachable through the sliders, the presets and the
\* category selector, every suggestion has deltaLifespan >= 0, a deficit of
\* at most 10^-9 months counting as rounding.
C23_AsStated ==
  hook = AllHooks =>
    \A i \in 1..Len(suggestions) :
      Ge(suggestions[i].deltaLifespan, Neg(RoundingTolerance))

\* 30 + (score - 0.65) * 60 for the score before the clamp
LifespanBeforeMultiplier(composition) ==
  Add(Num(30), Mul(Sub(scoreBeforeClamp(composition), Frac(65, 100)), Num(60)))

\* C24 as stated: the clamp to [0.4, 1.2] never changes the material score:
\* the score before the clamp lies in [0.5, 1.05], so the lifespan is the one
\* computed from the unclamped score and, before the category multiplier,
\* lies in [21, 54] months; at most 10^-9 outside an interval counts as
\* rounding and not as leaving it.
C24_AsStated ==
  hook = 1 =>
    LET score == scoreBeforeClamp(currentComposition)
        base  == LifespanBeforeMultiplier(currentComposition)
    IN  /\ Ge(score, Sub(Frac(50, 100), RoundingTolerance))
        /\ Le(score, Add(Frac(105, 100), RoundingTolerance))
        /\ currentLifespan = Mul(base, ClaimMultiplier(category))
        /\ Ge(base, Sub(Num(21), RoundingTolerance))
        /\ Le(base, Add(Num(54), RoundingTolerance))

\* the numeric entries of a page list, in order
NumericEntries(pages) == SelectSeq(pages, LAMBDA x : x # Ellipsis)

\* C25: whenever no search is loading, displayedProducts is the slice of
\* allProducts of the current page, and if allProducts is not empty then
\* 1 <= currentPage <= ceil(allProducts.length / itemsPerPage).
C25_DisplayedIsCurrentPage ==
  ~loading =>
    /\ displayedProducts =
         slice(allProducts, (currentPage - 1) * itemsPerPage,
               currentPage * itemsPerPage)
    /\ allProducts # <<>> =>
         /\ 1 <= currentPage
         /\ currentPage <= MathCeilDiv(Len(allProducts), itemsPerPage)

\* the last, partial page of the second kind of result, after a change of
\* the items per page and page changes
C25_Witness ==
  /\ ~loading
  /\ itemsPerPage = 10
  /\ currentPage = 3
  /\ Len(allProducts) = 26
  /\ displayedProducts = <<121, 122, 123, 124, 125, 126>>

\* the largest number of pages the page list is examined for
MaxTotalPages == 12

\* the page list is well formed for currentPage = current, totalPages = total
PageNumbersRight(current, total) ==
  LET pages   == getPageNumbers(current, total)
      numeric == NumericEntries(pages)
  IN  /\ \A i \in 1..Len(numeric) - 1 : numeric[i] < numeric[i + 1]
      /\ \A i \in 1..Len(numeric) : numeric[i] \in 1..total
      /\ {1, total, current} \subseteq {numeric[i] : i \in 1..Len(numeric)}
      /\ total <= 5 => pages = [i \in 1..total |-> i]

\* C26: for every totalPages >= 1 and currentPage in 1..totalPages the
\* numeric entries of getPageNumbers are strictly increasing, lie in
\* 1..totalPages and include 1, totalPages and currentPage; for
\* totalPages <= 5 the list is exactly 1..totalPages, without ellipsis.
C26_PageNumbers ==
  /\ \A total \in 1..MaxTotalPages : \A current \in 1..total :
       PageNumbersRight(current, total)
  /\ allProducts # <<>> => PageNumbersRight(currentPage, totalPages)

\* the page list with two ellipses is rendered
C26_Witness ==
  /\ PaginationShown
  /\ totalPages = 10
  /\ currentPage = 5
  /\ getPageNumbers(currentPage, totalPages) = <<1, Ellipsis, 4, 5, 6, Ellipsis, 10>>

\* a step in which handleSearch returns
SearchEnds == searchRun.pc = "finally" /\ searchRun'.pc = "idle"

\* C30 as stated: every search that is started eventually ends with
\* loading = false; a failed search leaves allProducts and displayedProducts
\* empty and error set, a successful one leaves error null and currentPage 1;
\* while a search is running loading is true and neither results nor
\* pagination are shown.
C30_AsStated ==
  /\ loading ~> ~loading
  /\ [][SearchEnds =>
          /\ ~loading'
          /\ searchRun.failed =>
               allProducts' = <<>> /\ displayedProducts' = <<>> /\ error' = FetchFailed
          /\ ~searchRun.failed => error' = NoError /\ currentPage' = 1]_vars
  /\ [](searchRun.pc # "idle" => loading /\ ~ResultsShown /\ ~PaginationShown)

\* the positions in listLog of the list requests a function sent
RequestsBy(fn) == {i \in DOMAIN listLog : listLog[i].by = fn}

\* the number of products the answers to the requests at positions S held
RECURSIVE ProductsGot(_)
ProductsGot(S) ==
  IF S = {} THEN 0
  ELSE LET i == CHOOSE x \in S : TRUE
       IN  listLog[i].length + ProductsGot(S \ {i})

\* C27 as stated: searchProducts resolves with at most maxProducts products;
\* it sends at most ceil(maxProducts / 30) list requests for the mapped
\* category, none after an empty page or once maxProducts items are
\* collected; the 'ladies_all' fallback requests are sent only if the mapped
\* category returned no product at all.
C27_AsStated ==
  LET primary == RequestsBy("searchProducts")
      max     == searchCall.maxProducts
  IN  /\ settled = "resolved" => Len(returned) <= max
      /\ Cardinality(primary) <= MathCeilDiv(max, productsPerPage)
      /\ \A i \in primary :
           /\ listLog[i].categoryId = searchCall.categoryId
           /\ \A j \in primary : j < i =>
                listLog[j].status = "ok" /\ listLog[j].length > 0
           /\ ProductsGot({j \in primary : j < i}) < max
      /\ RequestsBy("fetchFromLadiesAll") # {} =>
           /\ \A i \in primary : listLog[i].status = "ok"
           /\ ProductsGot(primary) = 0

\* C27 amended: for maxProducts >= 0 searchProducts resolves with at most
\* maxProducts products; for every maxProducts it sends at most
\* max(0, ceil(maxProducts / 30)) list requests for the mapped category, none
\* after an empty page or once maxProducts items are collected; the
\* 'ladies_all' fallback requests are sent only if the mapped category
\* returned no product at all; for a negative maxProducts no list request
\* is sent and the search resolves with no product.
C27_BoundedSearch ==
  LET primary == RequestsBy("searchProducts")
      max     == searchCall.maxProducts
  IN  /\ (settled = "resolved" /\ max >= 0) => Len(returned) <= max
      /\ (settled = "resolved" /\ max < 0) => returned = <<>>
      /\ max >= 0 => Cardinality(primary) <= MathCeilDiv(max, productsPerPage)
      /\ max < 0 => listLog = <<>>
      /\ \A i \in primary :
           /\ listLog[i].categoryId = searchCall.categoryId
           /\ \A j \in primary : j < i =>
                listLog[j].status = "ok" /\ listLog[j].length > 0
           /\ ProductsGot({j \in primary : j < i}) < max
      /\ RequestsBy("fetchFromLadiesAll") # {} =>
           /\ \A i \in primary : listLog[i].status = "ok"
           /\ ProductsGot(primary) = 0

\* 70 products asked: two pages of 45 are enough, the third is not asked for,
\* and the 90 items give two products
C27_Witness ==
  /\ settled = "resolved"
  /\ searchCall.maxProducts = 70
  /\ Len(listLog) = 2
  /\ Len(listed) = 90
  /\ returned = <<1, 3>>

\* C28: a failed detail request never fails the search: its product is left
\* out and the search resolves with the products whose detail requests
\* succeeded, whatever the order in which the requests settle; a failed list
\* request, of the mapped category or of the fallback, rejects the search.
C28_DetailFailuresTolerated ==
  /\ settled = "rejected" <=> \E i \in DOMAIN listLog : listLog[i].status = "failed"
  /\ searchPc = "details" => settled = "pending"
  /\ settled = "resolved" =>
       /\ {returned[i] : i \in DOMAIN returned}
            = {code \in DOMAIN details : details[code] = "ok"}
       /\ Len(returned) = Cardinality({code \in DOMAIN details : details[code] = "ok"})
  /\ (searchPc = "done" /\ \A i \in DOMAIN listLog : listLog[i].status = "ok")
       => settled = "resolved"

\* the search resolved although the detail request of product 2 failed
C28_Witness ==
  /\ settled = "resolved"
  /\ DOMAIN details = {1, 2, 3}
  /\ details[2] = "null"
  /\ returned = <<1, 3>>

\* C29: for every composition whose percentages sum to 100,
\* generateImprovedCompositions returns exactly the three recommendations
\* Sustainable Blend, Maximum Natural and Hemp Blend, and the percentages of
\* each recommended composition sum to 100.
C29_AsStated ==
  generated =>
    /\ Len(recommendations) = 3
    /\ [i \in 1..3 |-> recommendations[i].name]
         = <<"Sustainable Blend", "Maximum Natural", "Hemp Blend">>
    /\ \A i \in 1..3 : ObjSum(recommendations[i].composition) = 100

====
